---- MODULE Spec2Model ----
(***************************************************************************)
(* Model of diff-viz's icicle renderer: ParseNumstat's accumulation of     *)
(* file records, the shared tree helpers (BuildTreeFromFiles, InsertPath,  *)
(* CalcTotals, CollapseSingleChildPaths, FindNode) and IcicleRenderer's    *)
(* Render / buildLevels / buildLevelCells.                                 *)
(*                                                                         *)
(* Go strings are sequences of one-character strings, so strings.Split,    *)
(* strings.Join, string comparison and string concatenation are computed.  *)
(***************************************************************************)
EXTENDS Integers, Sequences, FiniteSets, TLC

\* ------------------------------------------------------------------ bounds
\* largest number of file records in one DiffStats
MaxFiles == 3
\* largest number of Render calls on one renderer
MaxRenders == 2
\* largest Width given to the renderer (the smallest is 2: no usable column)
MaxWidth == 7
\* largest MinCellWidth given to the renderer (the smallest is 1)
MaxMinCell == 2
\* largest MaxDepth given to the renderer (0 = unlimited)
MaxMaxDepth == 2
\* longest label handed to truncate on its own
MaxLabel == 7

\* ------------------------------------------------------------------ inputs
\* paths of the file records: a root file, a file next to a directory, a
\* directory whose only child is a file, directory chains of length 2 and 3,
\* and a path that is a file in one record and a directory in another ("a"
\* and "a/...")
PathUniverse ==
  { <<"a">>,
    <<"a", "/", "x">>,
    <<"a", "/", "b", "/", "x">>,
    <<"a", "/", "b", "/", "c", "/", "x">>,
    <<"b", "/", "y">> }

\* (additions, deletions) of a record: no change, addition only, both
CountUniverse == { <<0, 0>>, <<1, 0>>, <<2, 3>> }

Widths == 2..MaxWidth
MinCellWidths == 1..MaxMinCell
MaxDepths == 0..MaxMaxDepth

\* the mode names given to Resolve: the render modes and one that is none
ModeNames == {"tree", "smart", "topn", "icicle", "brackets", "unknown"}
\* the ModeConfigs of a source that sets each field to value or not at all
ModeConfigsOf(value) ==
  [{"Width", "Depth", "Expand", "N"} -> {<<>>, <<value>>}]
\* the configuration files: defaults that set 80, and no mode, or one mode
\* whose fields are set to 0
ConfigFiles ==
  [Defaults : ModeConfigsOf(80),
   Modes : {<<>>} \cup UNION {[{m} -> ModeConfigsOf(0)] : m \in {"topn", "icicle", "unknown"}}]
\* the command-line flags set 3
FlagSets == ModeConfigsOf(3)

\* characters of the labels handed to truncate on its own: two letters, the
\* extension dot and the directory separator
LabelChars == {"a", "b", ".", "/"}
\* every label of at most MaxLabel characters
Labels == UNION {[1..n -> LabelChars] : n \in 0..MaxLabel}
\* the maxLen arguments: none of the label fits, part of it, all of it
MaxLens == (-1)..(MaxLabel + 1)

\* ----------------------------------------------------------------- strings
\* byte values of the characters that occur in paths
CharCode ==
  [ch \in {".", "/", "a", "b", "c", "x", "y"} |->
     CASE ch = "." -> 46 [] ch = "/" -> 47 [] ch = "a" -> 97 [] ch = "b" -> 98
       [] ch = "c" -> 99 [] ch = "x" -> 120 [] ch = "y" -> 121]

\* Go's s < t on strings: bytewise lexicographic order
RECURSIVE StrLess(_, _)
StrLess(s, t) ==
  IF t = <<>> THEN FALSE
  ELSE IF s = <<>> THEN TRUE
  ELSE IF CharCode[Head(s)] < CharCode[Head(t)] THEN TRUE
  ELSE IF CharCode[Head(s)] > CharCode[Head(t)] THEN FALSE
  ELSE StrLess(Tail(s), Tail(t))

\* strings.Split(s, "/"): the segments between separators ("" gives one
\* empty segment)
RECURSIVE SplitFrom(_, _, _)
SplitFrom(s, i, cur) ==
  IF i > Len(s) THEN <<cur>>
  ELSE IF s[i] = "/" THEN <<cur>> \o SplitFrom(s, i + 1, <<>>)
  ELSE SplitFrom(s, i + 1, Append(cur, s[i]))

Split(s) == SplitFrom(s, 1, <<>>)

\* strings.Join(parts, "/")
RECURSIVE Join(_)
Join(parts) ==
  IF Len(parts) = 0 THEN <<>>
  ELSE IF Len(parts) = 1 THEN parts[1]
  ELSE parts[1] \o <<"/">> \o Join(Tail(parts))

\* -------------------------------------------------------------------- tree
\* TreeNode{Name, Path, IsDir, Add, Del, Children}
NewNode(name, path, isDir) ==
  [Name |-> name, Path |-> path, IsDir |-> isDir, Add |-> 0, Del |-> 0,
   Children |-> <<>>]

\* sortedFiles[i].Path < sortedFiles[j].Path
PathLess(f, g) == StrLess(f.Path, g.Path)

\* sort.Slice on at most 12 elements is an insertion sort: element x moves
\* left while less(x, left neighbour) holds.  InsertByPath is the sorted
\* prefix s with x at the position where it comes to rest.
InsertByPath(s, x) ==
  LET j == CHOOSE i \in 0..Len(s) :
             /\ \A q \in (i + 1)..Len(s) : PathLess(x, s[q])
             /\ (i = 0 \/ ~PathLess(x, s[i]))
  IN SubSeq(s, 1, j) \o <<x>> \o SubSeq(s, j + 1, Len(s))

RECURSIVE SortFilesPrefix(_, _)
SortFilesPrefix(files, n) ==
  IF n = 0 THEN <<>>
  ELSE InsertByPath(SortFilesPrefix(files, n - 1), files[n])

\* the copy of files left in the order given
SortFilesSkipped(files) == files

\* the copy of files sorted by Path
SortFiles(files) == SortFilesPrefix(files, Len(files))

\* index of the first child of current whose Name is part, 0 when none
ChildIndex(current, part) ==
  IF \E k \in 1..Len(current.Children) : current.Children[k].Name = part
  THEN CHOOSE k \in 1..Len(current.Children) :
         /\ current.Children[k].Name = part
         /\ \A m \in 1..(k - 1) : current.Children[m].Name # part
  ELSE 0

\* the body of InsertPath's loop from segment i on; the value is current
\* with the file inserted below it
RECURSIVE InsertParts(_, _, _, _)
InsertParts(current, parts, i, file) ==
  IF i > Len(parts) THEN current
  ELSE
    LET part == parts[i]
        isFile == (i = Len(parts))
        idx == ChildIndex(current, part)
        found == IF idx = 0
                 THEN NewNode(part, Join(SubSeq(parts, 1, i)), ~isFile)
                 ELSE current.Children[idx]
        child == IF isFile
                 THEN [found EXCEPT !.Add = file.Additions,
                                    !.Del = file.Deletions]
                 ELSE found
        below == InsertParts(child, parts, i + 1, file)
    IN [current EXCEPT !.Children =
          IF idx = 0 THEN Append(@, below) ELSE [@ EXCEPT ![idx] = below]]

InsertPath(root, file) == InsertParts(root, Split(file.Path), 1, file)

RECURSIVE InsertAll(_, _, _)
InsertAll(root, sortedFiles, n) ==
  IF n = 0 THEN root
  ELSE InsertPath(InsertAll(root, sortedFiles, n - 1), sortedFiles[n])

BuildTreeFromFiles(files) ==
  InsertAll(NewNode(<<>>, <<>>, TRUE), SortFiles(files), Len(files))

RECURSIVE SumField(_, _, _)
SumField(nodes, n, isAdd) ==
  IF n = 0 THEN 0
  ELSE SumField(nodes, n - 1, isAdd)
       + (IF isAdd THEN nodes[n].Add ELSE nodes[n].Del)

\* CalcTotals: the node with the totals of every directory below it set
RECURSIVE CalcTotals(_)
CalcTotals(node) ==
  IF ~node.IsDir THEN node
  ELSE
    LET kids == [k \in 1..Len(node.Children) |-> CalcTotals(node.Children[k])]
    IN [node EXCEPT !.Children = kids,
                    !.Add = SumField(kids, Len(kids), TRUE),
                    !.Del = SumField(kids, Len(kids), FALSE)]

\* the inner loop merging a directory with its only child whatever the child
\* is (the check that the child is a directory is missing)
RECURSIVE MergeChainAnyChild(_)
MergeChainAnyChild(child) ==
  IF child.IsDir /\ Len(child.Children) = 1
  THEN LET grandchild == child.Children[1]
       IN MergeChainAnyChild(
            [child EXCEPT !.Name = @ \o <<"/">> \o grandchild.Name,
                          !.Path = grandchild.Path,
                          !.Children = grandchild.Children])
  ELSE child

\* the inner loop adding the absorbed directory's totals to the merged node
RECURSIVE MergeChainAddingTotals(_)
MergeChainAddingTotals(child) ==
  IF child.IsDir /\ Len(child.Children) = 1 /\ child.Children[1].IsDir
  THEN LET grandchild == child.Children[1]
       IN MergeChainAddingTotals(
            [child EXCEPT !.Name = @ \o <<"/">> \o grandchild.Name,
                          !.Path = grandchild.Path,
                          !.Children = grandchild.Children,
                          !.Add = @ + grandchild.Add,
                          !.Del = @ + grandchild.Del])
  ELSE child

\* the inner loop of CollapseSingleChildPaths on one child
RECURSIVE MergeChain(_)
MergeChain(child) ==
  IF child.IsDir /\ Len(child.Children) = 1 /\ child.Children[1].IsDir
  THEN LET grandchild == child.Children[1]
       IN MergeChain([child EXCEPT !.Name = @ \o <<"/">> \o grandchild.Name,
                                   !.Path = grandchild.Path,
                                   !.Children = grandchild.Children])
  ELSE child

\* one merge step, without the loop
MergeOnce(child) ==
  IF child.IsDir /\ Len(child.Children) = 1 /\ child.Children[1].IsDir
  THEN LET grandchild == child.Children[1]
       IN [child EXCEPT !.Name = @ \o <<"/">> \o grandchild.Name,
                        !.Path = grandchild.Path,
                        !.Children = grandchild.Children]
  ELSE child

\* collapsing that merges a child once ("if" for "for") before it descends
RECURSIVE CollapseMergingOnce(_)
CollapseMergingOnce(node) ==
  [node EXCEPT !.Children =
     [k \in 1..Len(@) |-> CollapseMergingOnce(MergeOnce(@[k]))]]

RECURSIVE CollapseSingleChildPaths(_)
CollapseSingleChildPaths(node) ==
  [node EXCEPT !.Children =
     [k \in 1..Len(@) |-> MergeChain(CollapseSingleChildPaths(@[k]))]]

\* FindNode: the first node in depth-first order whose Path is path; the
\* value is <<node>>, or <<>> for nil
RECURSIVE FindNode(_, _)
RECURSIVE FindInChildren(_, _, _)
FindInChildren(node, k, path) ==
  IF k > Len(node.Children) THEN <<>>
  ELSE LET found == FindNode(node.Children[k], path)
       IN IF found # <<>> THEN found ELSE FindInChildren(node, k + 1, path)

\* a node is found by the last segment of the path alone
FindNodeByName(node, path) ==
  IF node.Name = Split(path)[Len(Split(path))] THEN <<node>>
  ELSE FindInChildren(node, 1, path)

FindNode(node, path) ==
  IF node.Path = path THEN <<node>> ELSE FindInChildren(node, 1, path)

\* IcicleRenderer.buildTree
buildTree(files) ==
  CollapseSingleChildPaths(CalcTotals(BuildTreeFromFiles(files)))

\* ------------------------------------------------------------------ layout
\* a less function that also holds of equal totals
TotalNotLess(n, m) == n.Add + n.Del >= m.Add + m.Del

\* sorted[i].Add+sorted[i].Del > sorted[j].Add+sorted[j].Del
TotalGreater(n, m) == n.Add + n.Del > m.Add + m.Del

\* the nodes with changes, in the order of nodes
RECURSIVE FilterChanged(_, _)
FilterChanged(nodes, n) ==
  IF n = 0 THEN <<>>
  ELSE IF nodes[n].Add + nodes[n].Del > 0
       THEN Append(FilterChanged(nodes, n - 1), nodes[n])
       ELSE FilterChanged(nodes, n - 1)

\* the insertion step of sort.Slice (at most 12 elements) with the less
\* function of buildLevelCells: x moves left past every node of smaller total
InsertByTotal(s, x) ==
  LET j == CHOOSE i \in 0..Len(s) :
             /\ \A q \in (i + 1)..Len(s) : TotalGreater(x, s[q])
             /\ (i = 0 \/ ~TotalGreater(x, s[i]))
  IN SubSeq(s, 1, j) \o <<x>> \o SubSeq(s, j + 1, Len(s))

RECURSIVE SortNodesPrefix(_, _)
SortNodesPrefix(nodes, n) ==
  IF n = 0 THEN <<>>
  ELSE InsertByTotal(SortNodesPrefix(nodes, n - 1), nodes[n])

RECURSIVE SumSeq(_, _)
SumSeq(s, n) == IF n = 0 THEN 0 ELSE SumSeq(s, n - 1) + s[n]

\* total changes of the first n nodes of s
RECURSIVE SumTotals(_, _)
SumTotals(s, n) ==
  IF n = 0 THEN 0 ELSE SumTotals(s, n - 1) + s[n].Add + s[n].Del

\* the shares taken of the total of the kept nodes instead of totalChanges
ProportionalWidthsOfKept(sorted, extraWidth, totalChanges, minCellWidth) ==
  [k \in 1..Len(sorted) |->
     minCellWidth +
       (IF extraWidth > 0 /\ totalChanges > 0
        THEN ((sorted[k].Add + sorted[k].Del) * extraWidth)
               \div SumTotals(sorted, Len(sorted))
        ELSE 0)]

\* MinCellWidth plus the node's share of extraWidth (Go's / on
\* non-negative operands)
ProportionalWidths(sorted, extraWidth, totalChanges, minCellWidth) ==
  [k \in 1..Len(sorted) |->
     minCellWidth +
       (IF extraWidth > 0 /\ totalChanges > 0
        THEN ((sorted[k].Add + sorted[k].Del) * extraWidth) \div totalChanges
        ELSE 0)]

\* the widths without the adjustment (the rounding residual is left unused)
FillRemainingSkipped(widths, availWidth) == widths

\* the unused width given to the last of the widths
FillRemainingToLast(widths, availWidth) ==
  LET usedWidth == SumSeq(widths, Len(widths))
  IN IF usedWidth < availWidth /\ Len(widths) > 0
     THEN [widths EXCEPT ![Len(widths)] = @ + (availWidth - usedWidth)]
     ELSE widths

\* "Adjust to fill remaining space": the unused width goes to widths[0]
FillRemaining(widths, availWidth) ==
  LET usedWidth == SumSeq(widths, Len(widths))
  IN IF usedWidth < availWidth /\ Len(widths) > 0
     THEN [widths EXCEPT ![1] = @ + (availWidth - usedWidth)]
     ELSE widths

\* IcicleCell for sorted[k], starting where the cells before it end
MakeCell(node, pos, width) ==
  [Label |-> IF node.IsDir THEN node.Name \o <<"/">> ELSE node.Name,
   Path  |-> node.Path,
   Total |-> node.Add + node.Del,
   Add   |-> node.Add,
   Del   |-> node.Del,
   Start |-> pos,
   End   |-> pos + width]

\* the nodes that are kept when minReserved > availWidth: the first
\* availWidth / MinCellWidth of sorted
KeepFitting(sorted, availWidth, minCellWidth) ==
  SubSeq(sorted, 1, availWidth \div minCellWidth)

\* "Build cells": the cell of kept[k] starts where the cells before it end
PlaceCells(kept, widths, startPos, dropped) ==
  [cells |-> [k \in 1..Len(kept) |->
                MakeCell(kept[k], startPos + SumSeq(widths, k - 1),
                         widths[k])],
   dropped |-> dropped]

\* buildLevelCells from "Adjust to fill remaining space" on; widths are the
\* proportional widths, kept in the result as they were before the adjustment
LaidOut(kept, widths, startPos, availWidth, dropped) ==
  [cells |-> PlaceCells(kept, FillRemaining(widths, availWidth), startPos,
                        dropped).cells,
   dropped |-> dropped,
   widths |-> widths]

\* buildLevelCells from "Calculate proportional widths" on, for the kept
\* nodes; count is the number of nodes with changes
CellsOfKept(kept, count, startPos, availWidth, totalChanges, minCellWidth) ==
  LaidOut(kept,
          ProportionalWidths(kept, availWidth - Len(kept) * minCellWidth,
                             totalChanges, minCellWidth),
          startPos, availWidth, count - Len(kept))

\* buildLevelCells from "if len(sorted) == 0" on
CellsOfSorted(sorted, startPos, availWidth, totalChanges, minCellWidth) ==
  IF Len(sorted) = 0 THEN [cells |-> <<>>, dropped |-> 0, widths |-> <<>>]
  ELSE IF Len(sorted) * minCellWidth > availWidth
          /\ availWidth \div minCellWidth = 0
  THEN [cells |-> <<>>, dropped |-> Len(sorted), widths |-> <<>>]
  ELSE CellsOfKept(IF Len(sorted) * minCellWidth > availWidth
                   THEN KeepFitting(sorted, availWidth, minCellWidth)
                   ELSE sorted,
                   Len(sorted), startPos, availWidth, totalChanges,
                   minCellWidth)

\* the nodes with changes sorted by total, largest first
SortChanged(changed) == SortNodesPrefix(changed, Len(changed))

\* buildLevelCells: cells is the returned slice, dropped the amount the call
\* adds to r.droppedCount, widths the widths before the adjustment
buildLevelCells(nodes, startPos, availWidth, totalChanges, minCellWidth) ==
  IF Len(nodes) = 0 \/ availWidth < 1
  THEN [cells |-> <<>>, dropped |-> 0, widths |-> <<>>]
  ELSE CellsOfSorted(SortChanged(FilterChanged(nodes, Len(nodes))), startPos,
                     availWidth, totalChanges, minCellWidth)

\* what one buildLevelCells call was given and what it did
CallRecord(nodes, startPos, availWidth, totalChanges, res) ==
  [nodes |-> [k \in 1..Len(nodes) |->
                [Path |-> nodes[k].Path,
                 Total |-> nodes[k].Add + nodes[k].Del]],
   startPos |-> startPos,
   availWidth |-> availWidth,
   totalChanges |-> totalChanges,
   cells |-> res.cells,
   dropped |-> res.dropped,
   widths |-> res.widths]

\* "nextLevel = append(nextLevel, childCells...)" with the call recorded
AppendChildCells(acc, nodes, cell, res) ==
  [cells |-> acc.cells \o res.cells,
   dropped |-> acc.dropped + res.dropped,
   calls |-> Append(acc.calls,
                    CallRecord(nodes, cell.Start, cell.End - cell.Start,
                               cell.Total, res))]

\* the children laid out from column 0 instead of cell.Start
ChildCellsAtOrigin(acc, cell, found, minCellWidth) ==
  IF found = <<>> THEN acc
  ELSE IF ~found[1].IsDir \/ Len(found[1].Children) = 0 THEN acc
  ELSE AppendChildCells(acc, found[1].Children, cell,
                        buildLevelCells(found[1].Children, 0,
                                        cell.End - cell.Start, cell.Total,
                                        minCellWidth))

\* the body of buildLevels' inner loop for one cell of prevLevel; found is
\* the result of FindNode
ChildCellsOf(acc, cell, found, minCellWidth) ==
  IF found = <<>> THEN acc
  ELSE IF ~found[1].IsDir \/ Len(found[1].Children) = 0 THEN acc
  ELSE AppendChildCells(acc, found[1].Children, cell,
                        buildLevelCells(found[1].Children, cell.Start,
                                        cell.End - cell.Start, cell.Total,
                                        minCellWidth))

\* buildLevels' inner loop over prevLevel[1..k]: the cells of the next level,
\* the amount added to r.droppedCount and the calls made
RECURSIVE NextLevel(_, _, _, _)
NextLevel(tree, prevLevel, k, minCellWidth) ==
  IF k = 0 THEN [cells |-> <<>>, dropped |-> 0, calls |-> <<>>]
  ELSE ChildCellsOf(NextLevel(tree, prevLevel, k - 1, minCellWidth),
                    prevLevel[k], FindNode(tree, prevLevel[k].Path),
                    minCellWidth)

\* r.droppedCount and the calls after one pass of the depth loop
Counted(acc, next) ==
  [acc EXCEPT !.droppedCount = @ + next.dropped, !.calls = @ \o next.calls]

\* buildLevels' loop "for depth := 1; r.MaxDepth == 0 || depth < r.MaxDepth";
\* LevelStep is the rest of one pass once nextLevel is built
RECURSIVE LevelLoop(_, _, _, _, _)
RECURSIVE LevelStep(_, _, _, _, _, _)
LevelStep(tree, acc, next, depth, maxDepth, minCellWidth) ==
  IF Len(next.cells) = 0 THEN Counted(acc, next)
  ELSE LevelLoop(tree,
                 [Counted(acc, next) EXCEPT !.levels = Append(@, next.cells)],
                 depth + 1, maxDepth, minCellWidth)

\* the depth loop going on while depth <= r.MaxDepth
LevelLoopOneDeeper(tree, acc, depth, maxDepth, minCellWidth) ==
  IF ~(maxDepth = 0 \/ depth <= maxDepth) THEN acc
  ELSE LevelStep(tree, acc,
                 NextLevel(tree, acc.levels[depth], Len(acc.levels[depth]),
                           minCellWidth),
                 depth, maxDepth, minCellWidth)

LevelLoop(tree, acc, depth, maxDepth, minCellWidth) ==
  IF ~(maxDepth = 0 \/ depth < maxDepth) THEN acc
  ELSE LevelStep(tree, acc,
                 NextLevel(tree, acc.levels[depth], Len(acc.levels[depth]),
                           minCellWidth),
                 depth, maxDepth, minCellWidth)

\* r.levels, r.droppedCount, the calls and the tree once level 0 is laid out
AfterLevel0(lvls, tree, level0, totalChanges, usableWidth, droppedCount) ==
  [levels |-> lvls,
   droppedCount |-> droppedCount + level0.dropped,
   calls |-> <<CallRecord(tree.Children, 0, usableWidth, totalChanges,
                           level0)>>,
   tree |-> tree]

\* buildLevels from "if len(level0) == 0" on
LevelsBelow(tree, level0, totalChanges, usableWidth, maxDepth, minCellWidth, droppedCount) ==
  IF Len(level0.cells) = 0
  THEN AfterLevel0(<<>>, tree, level0, totalChanges, usableWidth,
                   droppedCount)
  ELSE LevelLoop(tree,
                 AfterLevel0(<<level0.cells>>, tree, level0, totalChanges,
                             usableWidth, droppedCount),
                 1, maxDepth, minCellWidth)

\* buildLevels from "Level 0: root's children" on
LevelsOfTree(tree, totalChanges, usableWidth, maxDepth, minCellWidth, droppedCount) ==
  LevelsBelow(tree,
              buildLevelCells(tree.Children, 0, usableWidth, totalChanges,
                              minCellWidth),
              totalChanges, usableWidth, maxDepth, minCellWidth, droppedCount)

\* buildLevels: r.levels and r.droppedCount after the call, with the tree it
\* built and the buildLevelCells calls it made
buildLevels(stats, width, maxDepth, minCellWidth, droppedCount) ==
  LevelsOfTree(buildTree(stats.Files),
               IF stats.TotalAdd + stats.TotalDel = 0 THEN 1
               ELSE stats.TotalAdd + stats.TotalDel,
               width - 2, maxDepth, minCellWidth, droppedCount)

\* -------------------------------------------------------------------- text
\* A row is a sequence of strings: a string is one visible character (a box
\* character is written as its code point) or one ANSI colour code.
DefaultBoxStyle ==
  [TopLeft |-> "U+250C", TopRight |-> "U+2510", BottomLeft |-> "U+2514",
   BottomRight |-> "U+2518", LeftSep |-> "U+251C", RightSep |-> "U+2524",
   TopSep |-> "U+252C", BottomSep |-> "U+2534", Cross |-> "U+253C",
   Horizontal |-> "U+2500", Vertical |-> "U+2502"]

ASCIIBoxStyle ==
  [TopLeft |-> "+", TopRight |-> "+", BottomLeft |-> "+",
   BottomRight |-> "+", LeftSep |-> "+", RightSep |-> "+",
   TopSep |-> "+", BottomSep |-> "+", Cross |-> "+",
   Horizontal |-> "-", Vertical |-> "|"]

\* the style NewIcicleRenderer chooses
StyleOf(useColor) == IF useColor THEN DefaultBoxStyle ELSE ASCIIBoxStyle

ColorDir == "ESC[34m"
ColorAdd == "ESC[32m"
ColorDel == "ESC[31m"
ColorReset == "ESC[0m"

\* the ellipsis character of truncate
Ellipsis == "U+2026"

\* IcicleRenderer.color: what is written for a colour code
color(useColor, code) == IF useColor THEN <<code>> ELSE <<>>

\* IcicleCell.Color
Color(c) ==
  IF c.Add > 0 /\ c.Del = 0 THEN ColorAdd
  ELSE IF c.Del > 0 /\ c.Add = 0 THEN ColorDel
  ELSE ColorDir

\* strings.Repeat of a one-character string
Repeat(ch, n) == [i \in 1..n |-> ch]

\* the decimal digits fmt writes for %d of a non-negative number
DigitChars == <<"0", "1", "2", "3", "4", "5", "6", "7", "8", "9">>

RECURSIVE Digits(_)
Digits(n) ==
  IF n < 10 THEN <<DigitChars[n + 1]>>
  ELSE Append(Digits(n \div 10), DigitChars[(n % 10) + 1])

\* strings.LastIndex for a one-character substring: the 0-based index of
\* the last ch in s, -1 when there is none
LastIndex(s, ch) ==
  IF \E i \in 1..Len(s) : s[i] = ch
  THEN (CHOOSE i \in 1..Len(s) :
          s[i] = ch /\ \A q \in (i + 1)..Len(s) : s[q] # ch) - 1
  ELSE -1

\* the extension is never kept
TruncateDroppingExt(s, maxLen, lastDot) ==
  SubSeq(s, 1, maxLen - 1) \o <<Ellipsis>>

\* truncate's "Try to preserve file extension" branch (maxLen > 2); lastDot
\* is strings.LastIndex(s, ".")
TruncateKeepingExt(s, maxLen, lastDot) ==
  IF lastDot > 0 /\ maxLen >= 2 + 1 + (Len(s) - lastDot)
  THEN SubSeq(s, 1, maxLen - 1 - (Len(s) - lastDot))
       \o <<Ellipsis>> \o SubSeq(s, lastDot + 1, Len(s))
  ELSE SubSeq(s, 1, maxLen - 1) \o <<Ellipsis>>

\* the plain cut is taken up to three columns
TruncateNameCutThree(s, maxLen) ==
  IF maxLen <= 3
  THEN SubSeq(s, 1, IF Len(s) < maxLen THEN Len(s) ELSE maxLen)
  ELSE TruncateKeepingExt(s, maxLen, LastIndex(s, "."))

\* truncate's result for a name s longer than maxLen, the "/" of a directory
\* taken off
TruncateName(s, maxLen) ==
  IF maxLen <= 2
  THEN SubSeq(s, 1, IF Len(s) < maxLen THEN Len(s) ELSE maxLen)
  ELSE TruncateKeepingExt(s, maxLen, LastIndex(s, "."))

\* a label as long as maxLen is shortened too
truncateUnlessShorter(s, maxLen) ==
  IF maxLen <= 0 THEN <<>>
  ELSE IF Len(s) < maxLen THEN s
  ELSE IF s[Len(s)] = "/"
  THEN TruncateName(SubSeq(s, 1, Len(s) - 1), maxLen - 1) \o <<"/">>
  ELSE TruncateName(s, maxLen)

\* the "/" of a directory is not counted in maxLen
truncateUncountedSlash(s, maxLen) ==
  IF maxLen <= 0 THEN <<>>
  ELSE IF Len(s) <= maxLen THEN s
  ELSE IF s[Len(s)] = "/"
  THEN TruncateName(SubSeq(s, 1, Len(s) - 1), maxLen) \o <<"/">>
  ELSE TruncateName(s, maxLen)

\* IcicleRenderer.truncate (labels hold one-byte characters)
truncate(s, maxLen) ==
  IF maxLen <= 0 THEN <<>>
  ELSE IF Len(s) <= maxLen THEN s
  ELSE IF s[Len(s)] = "/"
  THEN TruncateName(SubSeq(s, 1, Len(s) - 1), maxLen - 1) \o <<"/">>
  ELSE TruncateName(s, maxLen)

\* formatCentered once the label is truncated
CenteredLabel(c, useColor, label, padding) ==
  [content |-> Repeat(" ", padding \div 2)
               \o color(useColor, Color(c)) \o label
               \o color(useColor, ColorReset)
               \o Repeat(" ", padding - (padding \div 2)),
   visualWidth |-> (padding \div 2) + Len(label)
                   + (padding - (padding \div 2))]

\* "padding := width - labelLen - reserveRight; if padding < 0 ..."
PaddedLabel(c, useColor, label, width, reserveRight) ==
  CenteredLabel(c, useColor, label,
                IF width - Len(label) - reserveRight < 0 THEN 0
                ELSE width - Len(label) - reserveRight)

\* the label is centred as it is, however long
formatCenteredUncut(c, useColor, width, reserveRight) ==
  PaddedLabel(c, useColor, c.Label, width, reserveRight)

\* IcicleCell.formatCentered with truncateFn = r.truncate, colorFn = r.color
formatCentered(c, useColor, width, reserveRight) ==
  PaddedLabel(c, useColor, truncate(c.Label, width - reserveRight), width,
              reserveRight)

\* IcicleRenderer.getBoundaries: the positions marked in the map; levelIdx
\* counts from 0
getBoundaries(lvls, levelIdx, width) ==
  IF levelIdx >= Len(lvls) THEN {}
  ELSE {lvls[levelIdx + 1][k].End : k \in
          {i \in 1..Len(lvls[levelIdx + 1]) :
             lvls[levelIdx + 1][i].End < width - 2}}

\* IcicleRenderer.getLeafBoundaries
getLeafBoundaries(leaves, width) ==
  {leaves[k].End : k \in {i \in 1..Len(leaves) : leaves[i].End < width - 2}}

\* only the cells of the last level taken for leaves
IsLeafOfLastLevel(lvls, depth, cell) == ~(depth + 1 < Len(lvls))

\* collectLeafCells' test of one cell of the level at index depth (from 0)
IsLeaf(lvls, depth, cell) ==
  IF depth + 1 < Len(lvls)
  THEN ~\E k \in 1..Len(lvls[depth + 2]) :
          /\ lvls[depth + 2][k].Start >= cell.Start
          /\ lvls[depth + 2][k].Start < cell.End
  ELSE TRUE

\* the leaves among the first n cells of the level at index depth
RECURSIVE LeavesOfLevel(_, _, _)
LeavesOfLevel(lvls, depth, n) ==
  IF n = 0 THEN <<>>
  ELSE IF IsLeaf(lvls, depth, lvls[depth + 1][n])
       THEN Append(LeavesOfLevel(lvls, depth, n - 1), lvls[depth + 1][n])
       ELSE LeavesOfLevel(lvls, depth, n - 1)

\* collectLeafCells' loops over the first n levels
RECURSIVE LeavesUpTo(_, _)
LeavesUpTo(lvls, n) ==
  IF n = 0 THEN <<>>
  ELSE LeavesUpTo(lvls, n - 1)
       \o LeavesOfLevel(lvls, n - 1, Len(lvls[n]))

\* the insertion step of sort.Slice (at most 12 elements) with the less
\* function leaves[i].Start < leaves[j].Start
InsertByStart(s, x) ==
  LET j == CHOOSE i \in 0..Len(s) :
             /\ \A q \in (i + 1)..Len(s) : x.Start < s[q].Start
             /\ (i = 0 \/ ~(x.Start < s[i].Start))
  IN SubSeq(s, 1, j) \o <<x>> \o SubSeq(s, j + 1, Len(s))

RECURSIVE SortByStartPrefix(_, _)
SortByStartPrefix(cells, n) ==
  IF n = 0 THEN <<>>
  ELSE InsertByStart(SortByStartPrefix(cells, n - 1), cells[n])

\* the leaves in the order they were found, level by level
collectLeafCellsUnsorted(lvls) == LeavesUpTo(lvls, Len(lvls))

\* IcicleRenderer.collectLeafCells
collectLeafCells(lvls) ==
  SortByStartPrefix(LeavesUpTo(lvls, Len(lvls)),
                    Len(LeavesUpTo(lvls, Len(lvls))))

\* a border: the corners and, from pos 1 to width-2, sep at the boundaries
\* and the horizontal rule elsewhere
BorderText(boundaries, left, sep, right, width, style) ==
  <<left>>
  \o [pos \in 1..(width - 2) |->
        IF pos \in boundaries THEN sep ELSE style.Horizontal]
  \o <<right>>

\* IcicleRenderer.renderBorder
renderBorder(lvls, levelIdx, isTop, width, style) ==
  IF isTop
  THEN BorderText(getBoundaries(lvls, levelIdx, width), style.TopLeft,
                  style.TopSep, style.TopRight, width, style)
  ELSE BorderText(getBoundaries(lvls, levelIdx, width), style.BottomLeft,
                  style.BottomSep, style.BottomRight, width, style)

\* IcicleRenderer.renderLeafBorder
renderLeafBorder(leaves, width, style) ==
  BorderText(getLeafBoundaries(leaves, width), style.BottomLeft,
             style.BottomSep, style.BottomRight, width, style)

\* the switch with the cases of the boundary above and below exchanged
JunctionExchanged(above, below, style) ==
  IF above /\ below THEN style.Cross
  ELSE IF above THEN style.TopSep
  ELSE IF below THEN style.BottomSep
  ELSE style.Horizontal

\* the switch of renderSeparator and renderLeafSeparator at one position
Junction(above, below, style) ==
  IF above /\ below THEN style.Cross
  ELSE IF above THEN style.BottomSep
  ELSE IF below THEN style.TopSep
  ELSE style.Horizontal

\* a separator row for the boundaries above and below it
JunctionText(aboveBoundaries, belowBoundaries, width, style) ==
  <<style.LeftSep>>
  \o [pos \in 1..(width - 2) |->
        Junction(pos \in aboveBoundaries, pos \in belowBoundaries, style)]
  \o <<style.RightSep>>

\* IcicleRenderer.renderSeparator
renderSeparator(lvls, aboveIdx, belowIdx, width, style) ==
  JunctionText(getBoundaries(lvls, aboveIdx, width),
               getBoundaries(lvls, belowIdx, width), width, style)

\* IcicleRenderer.renderLeafSeparator
renderLeafSeparator(lvls, lastLevelIdx, leaves, width, style) ==
  JunctionText(getBoundaries(lvls, lastLevelIdx, width),
               getLeafBoundaries(leaves, width), width, style)

\* "for pos < to": the vertical rule at the parent boundaries and a space
\* elsewhere, for the positions from..to-1
GapFill(parentBoundaries, from, to, style) ==
  [i \in 1..(to - from) |->
     IF (from + i - 1) \in parentBoundaries THEN style.Vertical ELSE " "]

\* one pass of renderContentRow's loop: row is the text and the position
\* before the cell, fmt the result of formatCentered for it
ContentStep(row, cell, fmt, isLast, parentBoundaries, style) ==
  [text |-> row.text
            \o GapFill(parentBoundaries, row.pos, cell.Start + 1, style)
            \o fmt.content
            \o (IF isLast THEN <<>> ELSE <<style.Vertical>>),
   pos |-> cell.Start + 1 + fmt.visualWidth + (IF isLast THEN 0 ELSE 1)]

\* renderContentRow's loop over the first n cells of level
RECURSIVE ContentCells(_, _, _, _, _)
ContentCells(level, n, parentBoundaries, style, useColor) ==
  IF n = 0 THEN [text |-> <<style.Vertical>>, pos |-> 1]
  ELSE ContentStep(ContentCells(level, n - 1, parentBoundaries, style,
                                useColor),
                   level[n],
                   formatCentered(level[n], useColor,
                                  level[n].End - level[n].Start, 1),
                   n = Len(level), parentBoundaries, style)

\* "Fill remaining space" and the right border
ClosedRow(row, parentBoundaries, width, style) ==
  row.text \o GapFill(parentBoundaries, row.pos, width - 1, style)
  \o <<style.Vertical>>

\* IcicleRenderer.renderContentRow
renderContentRow(lvls, levelIdx, width, style, useColor) ==
  ClosedRow(ContentCells(lvls[levelIdx + 1], Len(lvls[levelIdx + 1]),
                         IF levelIdx > 0
                         THEN getBoundaries(lvls, levelIdx - 1, width)
                         ELSE {},
                         style, useColor),
            IF levelIdx > 0 THEN getBoundaries(lvls, levelIdx - 1, width)
            ELSE {},
            width, style)

\* "+%d" of the additions and, when there are deletions, " -%d" of them
StatsPlain(cell) ==
  <<"+">> \o Digits(cell.Add)
  \o (IF cell.Del > 0 THEN <<" ", "-">> \o Digits(cell.Del) ELSE <<>>)

\* coloredStats
StatsColored(cell, useColor) ==
  color(useColor, ColorAdd) \o <<"+">> \o Digits(cell.Add)
  \o color(useColor, ColorReset)
  \o (IF cell.Del > 0
      THEN color(useColor, ColorDel) \o <<" ", "-">> \o Digits(cell.Del)
           \o color(useColor, ColorReset)
      ELSE <<>>)

\* the padding is computed from what is written, colour codes included
StatsCenteredByWritten(cell, plain, availWidth, useColor) ==
  IF Len(plain) > availWidth
  THEN SubSeq(plain, 1, availWidth)
  ELSE LET written == Len(StatsColored(cell, useColor))
           padding == IF availWidth > written THEN availWidth - written ELSE 0
       IN Repeat(" ", padding \div 2)
          \o StatsColored(cell, useColor)
          \o Repeat(" ", padding - (padding \div 2))

\* the stats of a leaf centred in availWidth = cell.Width() - 1 positions,
\* cut (and then uncoloured) when they are longer
StatsCentered(cell, plain, availWidth, useColor) ==
  IF Len(plain) > availWidth
  THEN SubSeq(plain, 1, availWidth)
  ELSE Repeat(" ", (availWidth - Len(plain)) \div 2)
       \o StatsColored(cell, useColor)
       \o Repeat(" ", (availWidth - Len(plain))
                        - ((availWidth - Len(plain)) \div 2))

\* one pass of renderStatsFooterFromCells' loop
StatsStep(row, cell, isLast, style, useColor) ==
  [text |-> row.text
            \o GapFill({}, row.pos, cell.Start + 1, style)
            \o StatsCentered(cell, StatsPlain(cell),
                             cell.End - cell.Start - 1, useColor)
            \o (IF isLast THEN <<>> ELSE <<style.Vertical>>),
   pos |-> cell.Start + 1 + (cell.End - cell.Start - 1)
           + (IF isLast THEN 0 ELSE 1)]

\* renderStatsFooterFromCells' loop over the first n leaves
RECURSIVE StatsCells(_, _, _, _)
StatsCells(leaves, n, style, useColor) ==
  IF n = 0 THEN [text |-> <<style.Vertical>>, pos |-> 1]
  ELSE StatsStep(StatsCells(leaves, n - 1, style, useColor), leaves[n],
                 n = Len(leaves), style, useColor)

\* IcicleRenderer.renderStatsFooterFromCells
renderStatsFooterFromCells(leaves, width, style, useColor) ==
  ClosedRow(StatsCells(leaves, Len(leaves), style, useColor), {}, width,
            style)

\* ------------------------------------------------------------------ render
\* the rows of the level loop with a separator after the last depth too
RECURSIVE LevelRowsSeparated(_, _, _, _, _)
LevelRowsSeparated(lvls, n, lastLevel, width, useColor) ==
  IF n = 0 THEN <<>>
  ELSE LevelRowsSeparated(lvls, n - 1, lastLevel, width, useColor)
       \o <<[kind |-> "content", depth |-> n - 1,
             text |-> renderContentRow(lvls, n - 1, width,
                                       StyleOf(useColor), useColor)],
            [kind |-> "separator", depth |-> n - 1,
             text |-> renderSeparator(lvls, n - 1, n, width,
                                      StyleOf(useColor))]>>

\* the rows between the top border and the leaf separator: the content row
\* of every depth and a separator after every depth but the last
RECURSIVE LevelRows(_, _, _, _, _)
LevelRows(lvls, n, lastLevel, width, useColor) ==
  IF n = 0 THEN <<>>
  ELSE LevelRows(lvls, n - 1, lastLevel, width, useColor)
       \o <<[kind |-> "content", depth |-> n - 1,
             text |-> renderContentRow(lvls, n - 1, width,
                                       StyleOf(useColor), useColor)]>>
       \o (IF n - 1 < lastLevel
           THEN <<[kind |-> "separator", depth |-> n - 1,
                   text |-> renderSeparator(lvls, n - 1, n, width,
                                            StyleOf(useColor))]>>
           ELSE <<>>)

\* the stats footer: leaf separator, stats row and bottom border for the
\* leaves that collectLeafCells returned
FooterRows(lvls, leaves, width, useColor) ==
  <<[kind |-> "leafSeparator",
     text |-> renderLeafSeparator(lvls, Len(lvls) - 1, leaves, width,
                                  StyleOf(useColor))],
    [kind |-> "stats",
     text |-> renderStatsFooterFromCells(leaves, width, StyleOf(useColor),
                                         useColor)],
    [kind |-> "bottom",
     text |-> renderLeafBorder(leaves, width, StyleOf(useColor))]>>

\* the rows Render writes once level 0 has a cell
GridRows(lvls, width, useColor) ==
  <<[kind |-> "top",
     text |-> renderBorder(lvls, 0, TRUE, width, StyleOf(useColor))]>>
  \o LevelRows(lvls, Len(lvls), Len(lvls) - 1, width, useColor)
  \o FooterRows(lvls, collectLeafCells(lvls), width, useColor)

\* "%s+%d%s %s-%d%s in %d files" and, with the note, " (%d hidden)"
SummaryText(stats, droppedCount, useColor) ==
  color(useColor, ColorAdd) \o <<"+">> \o Digits(stats.TotalAdd)
  \o color(useColor, ColorReset) \o <<" ">>
  \o color(useColor, ColorDel) \o <<"-">> \o Digits(stats.TotalDel)
  \o color(useColor, ColorReset) \o <<" ", "i", "n", " ">>
  \o Digits(stats.TotalFiles) \o <<" ", "f", "i", "l", "e", "s">>
  \o (IF droppedCount > 0
      THEN <<" ", "(">> \o Digits(droppedCount)
           \o <<" ", "h", "i", "d", "d", "e", "n", ")">>
      ELSE <<>>)

\* the summary line; the "(%d hidden)" note is written when droppedCount > 0
SummaryRow(stats, droppedCount, useColor) ==
  [kind |-> "summary", add |-> stats.TotalAdd, del |-> stats.TotalDel,
   files |-> stats.TotalFiles, note |-> droppedCount > 0,
   hidden |-> IF droppedCount > 0 THEN droppedCount ELSE 0,
   text |-> SummaryText(stats, droppedCount, useColor)]

NoChangesRow ==
  [kind |-> "noChanges",
   text |-> <<"N", "o", " ", "c", "h", "a", "n", "g", "e", "s">>]

\* what Render leaves and writes once buildLevels has run
Rendered(stats, built, rows) ==
  [levels |-> built.levels, droppedCount |-> built.droppedCount,
   out |-> rows, calls |-> built.calls, tree |-> <<built.tree>>]

\* Render after buildLevels, without the check of len(r.levels) and
\* len(r.levels[0])
RenderBuiltUnchecked(stats, built, width, useColor) ==
  Rendered(stats, built,
           GridRows(built.levels, width, useColor)
           \o <<SummaryRow(stats, built.droppedCount, useColor)>>)

\* Render after buildLevels: "No changes" when level 0 has no cell, else the
\* grid and the summary
RenderBuilt(stats, built, width, useColor) ==
  Rendered(stats, built,
           IF Len(built.levels) = 0 \/ Len(built.levels[1]) = 0
           THEN <<NoChangesRow>>
           ELSE GridRows(built.levels, width, useColor)
                \o <<SummaryRow(stats, built.droppedCount, useColor)>>)

\* IcicleRenderer.Render on a renderer whose fields are levels0 and
\* droppedCount0: the fields after the call, the rows written, and the tree
\* and calls of buildLevels (<<>> when buildLevels is not reached)
RenderCall(stats, width, maxDepth, minCellWidth, useColor, levels0, droppedCount0) ==
  IF stats.TotalFiles = 0
  THEN [levels |-> levels0, droppedCount |-> droppedCount0,
        out |-> <<NoChangesRow>>, calls |-> <<>>, tree |-> <<>>]
  ELSE RenderBuilt(stats, buildLevels(stats, width, maxDepth, minCellWidth,
                                      droppedCount0),
                   width, useColor)

\* ---------------------------------------------------------- runtime errors
\* Go's a / b for b # 0: the quotient truncated toward zero
GoQuot(a, b) ==
  IF (a >= 0) = (b > 0) THEN (IF a >= 0 THEN a ELSE -a) \div (IF b > 0 THEN b ELSE -b)
  ELSE -((IF a >= 0 THEN a ELSE -a) \div (IF b > 0 THEN b ELSE -b))

\* s[:n] on a slice or string of len items panics
SliceOutOfRange(n, len) == n < 0 \/ n > len

\* "maxNodes := availWidth / r.MinCellWidth" and "sorted[:maxNodes]" for
\* count nodes with changes: an integer divide by zero or a slice out of
\* range
KeepFittingPanics(count, availWidth, minCellWidth) ==
  \/ minCellWidth = 0
  \/ /\ GoQuot(availWidth, minCellWidth) # 0
     /\ SliceOutOfRange(GoQuot(availWidth, minCellWidth), count)

\* the number of nodes of a call with changes
ChangedIn(nodes) == Cardinality({k \in 1..Len(nodes) : nodes[k].Total > 0})

\* the call goes on when availWidth is below 1
buildLevelCellsPanicsUnguarded(nodes, availWidth, minCellWidth) ==
  /\ Len(nodes) # 0
  /\ ChangedIn(nodes) # 0
  /\ ChangedIn(nodes) * minCellWidth > availWidth
  /\ KeepFittingPanics(ChangedIn(nodes), availWidth, minCellWidth)

\* buildLevelCells stops with a runtime error: it can in "Not enough space
\* for all nodes" alone ("/ totalChanges" and "widths[0]" are guarded)
buildLevelCellsPanics(nodes, availWidth, minCellWidth) ==
  /\ ~(Len(nodes) = 0 \/ availWidth < 1)
  /\ ChangedIn(nodes) # 0
  /\ ChangedIn(nodes) * minCellWidth > availWidth
  /\ KeepFittingPanics(ChangedIn(nodes), availWidth, minCellWidth)

\* the slices of truncate's "Try to preserve file extension" branch
TruncateKeepingExtPanics(s, maxLen, lastDot) ==
  IF lastDot > 0 /\ maxLen >= 2 + 1 + (Len(s) - lastDot)
  THEN SliceOutOfRange(maxLen - 1 - (Len(s) - lastDot), lastDot)
  ELSE SliceOutOfRange(maxLen - 1, Len(s))

\* the slices of truncate for a name s longer than maxLen
TruncateNamePanics(s, maxLen) ==
  IF maxLen <= 2
  THEN SliceOutOfRange(IF Len(s) < maxLen THEN Len(s) ELSE maxLen, Len(s))
  ELSE TruncateKeepingExtPanics(s, maxLen, LastIndex(s, "."))

\* truncate stops with a runtime error
truncatePanics(s, maxLen) ==
  IF maxLen <= 0 THEN FALSE
  ELSE IF Len(s) <= maxLen THEN FALSE
  ELSE IF s[Len(s)] = "/"
  THEN TruncateNamePanics(SubSeq(s, 1, Len(s) - 1), maxLen - 1)
  ELSE TruncateNamePanics(s, maxLen)

\* formatCentered stops with a runtime error: in truncate, or in
\* strings.Repeat with a negative count (padding is raised to 0 first)
formatCenteredPanics(c, width, reserveRight) ==
  \/ truncatePanics(c.Label, width - reserveRight)
  \/ LET labelLen == Len(truncate(c.Label, width - reserveRight))
         padding == IF width - labelLen - reserveRight < 0 THEN 0
                    ELSE width - labelLen - reserveRight
     IN GoQuot(padding, 2) < 0 \/ padding - GoQuot(padding, 2) < 0

\* renderStatsFooterFromCells stops with a runtime error at a leaf:
\* "plainStats[:availWidth]" out of range, or strings.Repeat with a
\* negative count
StatsPanics(cell) ==
  LET statsLen == Len(StatsPlain(cell))
      availWidth == (cell.End - cell.Start) - 1
  IN IF statsLen > availWidth
     THEN SliceOutOfRange(availWidth, statsLen)
     ELSE LET padding == availWidth - statsLen
          IN GoQuot(padding, 2) < 0 \/ padding - GoQuot(padding, 2) < 0

\* the rendering of the grid stops with a runtime error
GridPanics(lvls) ==
  \/ \E d \in 1..Len(lvls) : \E i \in 1..Len(lvls[d]) :
       formatCenteredPanics(lvls[d][i], lvls[d][i].End - lvls[d][i].Start, 1)
  \/ \E leaf \in {collectLeafCells(lvls)[i] : i \in 1..Len(collectLeafCells(lvls))} :
       StatsPanics(leaf)

\* the Render call whose outcome is r stops with a runtime error
RenderPanics(r, minCellWidth) ==
  \/ \E k \in 1..Len(r.calls) :
       buildLevelCellsPanics(r.calls[k].nodes, r.calls[k].availWidth,
                             minCellWidth)
  \/ /\ r.out # <<NoChangesRow>>
     /\ GridPanics(r.levels)

\* ----------------------------------------------------------- configuration
\* A *int is <<>> (nil) or <<n>>; a ModeConfig and a ResolvedConfig are
\* records over the four fields.
ConfigFields == {"Width", "Depth", "Expand", "N"}

DefaultWidth == 100
DefaultDepth == 2
DefaultExpand == -1
DefaultN == 5

\* a ModeConfig with no field set
EmptyModeConfig == [f \in ConfigFields |-> <<>>]

\* the built-in defaults of each render mode
ModeDefaults ==
  [m \in {"tree", "smart", "topn", "icicle", "brackets"} |->
     CASE m = "tree" -> EmptyModeConfig
       [] m = "smart" -> [EmptyModeConfig EXCEPT !.Depth = <<3>>]
       [] m = "topn" -> [EmptyModeConfig EXCEPT !.N = <<10>>]
       [] m = "icicle" -> [EmptyModeConfig EXCEPT !.Depth = <<4>>]
       [] m = "brackets" -> [EmptyModeConfig EXCEPT !.Expand = <<-1>>]]

DefaultConfig ==
  [Width |-> DefaultWidth, Depth |-> DefaultDepth, Expand |-> DefaultExpand,
   N |-> DefaultN]

\* mergeConfig: src overlaid on base, the fields that are not nil replaced
mergeConfig(base, src) ==
  [f \in ConfigFields |-> IF src[f] # <<>> THEN src[f][1] ELSE base[f]]

\* "if modeConfig, ok := m[mode]; ok { result = mergeConfig(...) }"
MergeModeOf(result, m, mode) ==
  IF mode \in DOMAIN m THEN mergeConfig(result, m[mode]) ELSE result

\* Resolve's "if c != nil" block; c is <<>> (nil) or <<the Config>>
MergeFile(result, c, mode) ==
  IF c # <<>>
  THEN MergeModeOf(mergeConfig(result, c[1].Defaults), c[1].Modes, mode)
  ELSE result

\* Resolve's "if cliFlags != nil" block; cliFlags is <<>> or <<a ModeConfig>>
MergeFlags(result, cliFlags) ==
  IF cliFlags # <<>> THEN mergeConfig(result, cliFlags[1]) ELSE result

\* the defaults of the configuration file applied after its modes
ResolveDefaultsLast(c, mode, cliFlags) ==
  MergeFlags(IF c # <<>>
             THEN mergeConfig(MergeModeOf(MergeModeOf(DefaultConfig,
                                                      ModeDefaults, mode),
                                          c[1].Modes, mode),
                              c[1].Defaults)
             ELSE MergeModeOf(DefaultConfig, ModeDefaults, mode),
             cliFlags)

\* Config.Resolve
Resolve(c, mode, cliFlags) ==
  MergeFlags(MergeFile(MergeModeOf(DefaultConfig, ModeDefaults, mode),
                       c, mode),
             cliFlags)

\* ------------------------------------------------------------------- state
VARIABLES
  stats,         \* the DiffStats handed to Render
  Width,         \* IcicleRenderer.Width
  MaxDepth,      \* IcicleRenderer.MaxDepth
  MinCellWidth,  \* IcicleRenderer.MinCellWidth
  UseColor,      \* IcicleRenderer.UseColor
  levels,        \* IcicleRenderer.levels
  droppedCount,  \* IcicleRenderer.droppedCount
  out,           \* the rows the latest Render call wrote to r.w
  calls,         \* the buildLevelCells calls of the latest Render call
  tree,          \* <<the tree of the latest buildLevels call>>, else <<>>
  renders,       \* number of Render calls made on the renderer
  truncLabel,    \* the s argument of a call of r.truncate
  truncMaxLen,   \* the maxLen argument of the latest call of r.truncate
  truncated,     \* <<the result of the latest call of r.truncate>>, else <<>>
  panicked,      \* a Render call stopped with a runtime error
  config,        \* the receiver of Resolve: <<>> (nil) or <<the Config>>
  modeName,      \* the mode argument of Resolve
  flags,         \* the cliFlags argument of Resolve: <<>> (nil) or <<ModeConfig>>
  resolved       \* <<the ResolvedConfig Resolve returned>>, else <<>>

\* the arguments and the result of r.truncate called on its own
truncVars == <<truncLabel, truncMaxLen, truncated>>

\* the arguments and the result of Config.Resolve
configVars == <<config, modeName, flags, resolved>>

vars == <<stats, Width, MaxDepth, MinCellWidth, UseColor, levels,
          droppedCount, out, calls, tree, renders, truncVars, panicked,
          configVars>>

\* Resolve was not called
NoResolve ==
  /\ config = <<>>
  /\ modeName = "icicle"
  /\ flags = <<>>
  /\ resolved = <<>>

\* r.truncate was not called on its own
NoTruncate ==
  /\ truncLabel = <<>>
  /\ truncMaxLen = 0
  /\ truncated = <<>>

\* an empty DiffStats and a renderer from NewIcicleRenderer(w, useColor)
\* whose Width and MaxDepth were assigned by getRenderer (MinCellWidth is a
\* public field too)
InitWith(useColors) ==
  /\ stats = [Files |-> <<>>, TotalAdd |-> 0, TotalDel |-> 0, TotalFiles |-> 0]
  /\ Width \in Widths
  /\ MaxDepth \in MaxDepths
  /\ MinCellWidth \in MinCellWidths
  /\ UseColor \in useColors
  /\ levels = <<>>
  /\ droppedCount = 0
  /\ out = <<>>
  /\ calls = <<>>
  /\ tree = <<>>
  /\ renders = 0
  /\ NoTruncate
  /\ panicked = FALSE
  /\ NoResolve

\* colour is on unless the command line switches it off
Init == InitWith({TRUE})

\* ParseNumstat's loop body for one numstat line: the record is appended and
\* the totals grow.  git lists a path once, and the stats are complete before
\* they are rendered.  Records are unordered; one order per record set is
\* fed, the reverse of the sorted order, and the other orders are covered by
\* quantifying over the permutations of stats.Files (OrderIndependent).
ParseLine(path, counts) ==
  /\ renders = 0
  /\ stats.TotalFiles < MaxFiles
  /\ \A k \in 1..Len(stats.Files) : StrLess(path, stats.Files[k].Path)
  /\ stats' = [Files |-> Append(stats.Files,
                                [Path |-> path, Additions |-> counts[1],
                                 Deletions |-> counts[2]]),
               TotalAdd |-> stats.TotalAdd + counts[1],
               TotalDel |-> stats.TotalDel + counts[2],
               TotalFiles |-> Len(stats.Files) + 1]
  /\ UNCHANGED <<Width, MaxDepth, MinCellWidth, UseColor, levels,
                 droppedCount, out, calls, tree, renders, truncVars,
                 panicked, configVars>>

\* r.Render(stats)
Render ==
  /\ renders < MaxRenders
  /\ ~panicked
  /\ \E r \in {RenderCall(stats, Width, MaxDepth, MinCellWidth, UseColor,
                          levels, droppedCount)} :
       /\ levels' = r.levels
       /\ droppedCount' = r.droppedCount
       /\ out' = r.out
       /\ calls' = r.calls
       /\ tree' = r.tree
       /\ panicked' = RenderPanics(r, MinCellWidth)
  /\ renders' = renders + 1
  /\ UNCHANGED <<stats, Width, MaxDepth, MinCellWidth, UseColor, truncVars,
                 configVars>>

Next ==
  \/ \E path \in PathUniverse, counts \in CountUniverse : ParseLine(path, counts)
  \/ Render

Spec == Init /\ [][Next]_vars

\* the renderer configured to show everything, with colour or without: the
\* widest chart, the smallest cells, unlimited depth.  buildTree reads the records alone, so
\* the properties of the tree are checked under this configuration
InitWide ==
  /\ InitWith(BOOLEAN)
  /\ Width = MaxWidth
  /\ MinCellWidth = 1
  /\ MaxDepth = 0

WideSpec == InitWide /\ [][Next]_vars

\* every Width from below zero: Width is an int assigned from the command
\* line unvalidated.  MaxDepth is unlimited or one level
AnyWidths == (-1)..MaxWidth

InitAnyWidth ==
  /\ stats = [Files |-> <<>>, TotalAdd |-> 0, TotalDel |-> 0, TotalFiles |-> 0]
  /\ Width \in AnyWidths
  /\ MaxDepth \in {0, 1}
  /\ MinCellWidth \in MinCellWidths
  /\ UseColor = TRUE
  /\ levels = <<>>
  /\ droppedCount = 0
  /\ out = <<>>
  /\ calls = <<>>
  /\ tree = <<>>
  /\ renders = 0
  /\ NoTruncate
  /\ panicked = FALSE
  /\ NoResolve

AnyWidthSpec == InitAnyWidth /\ [][Next]_vars

\* a renderer that renders nothing and a label to be truncated: truncate
\* reads no field of the renderer
InitTruncate ==
  /\ stats = [Files |-> <<>>, TotalAdd |-> 0, TotalDel |-> 0, TotalFiles |-> 0]
  /\ Width = MaxWidth
  /\ MaxDepth = 0
  /\ MinCellWidth = 1
  /\ UseColor = TRUE
  /\ levels = <<>>
  /\ droppedCount = 0
  /\ out = <<>>
  /\ calls = <<>>
  /\ tree = <<>>
  /\ renders = 0
  /\ truncLabel \in Labels
  /\ truncMaxLen = 0
  /\ truncated = <<>>
  /\ panicked = FALSE
  /\ NoResolve

\* r.truncate(truncLabel, n)
Truncate(n) ==
  /\ ~panicked
  /\ truncMaxLen' = n
  /\ truncated' = <<truncate(truncLabel, n)>>
  /\ panicked' = truncatePanics(truncLabel, n)
  /\ UNCHANGED <<stats, Width, MaxDepth, MinCellWidth, UseColor, levels,
                 droppedCount, out, calls, tree, renders, truncLabel,
                 configVars>>

NextTruncate == \E n \in MaxLens : Truncate(n)

TruncateSpec == InitTruncate /\ [][NextTruncate]_vars

\* the arguments of one Resolve call, as main gives them: a configuration
\* loaded or nil, a mode name, the flags set on the command line or nil
InitResolve ==
  /\ stats = [Files |-> <<>>, TotalAdd |-> 0, TotalDel |-> 0, TotalFiles |-> 0]
  /\ Width = MaxWidth
  /\ MaxDepth = 0
  /\ MinCellWidth = 1
  /\ UseColor = TRUE
  /\ levels = <<>>
  /\ droppedCount = 0
  /\ out = <<>>
  /\ calls = <<>>
  /\ tree = <<>>
  /\ renders = 0
  /\ NoTruncate
  /\ panicked = FALSE
  /\ config \in {<<>>} \cup {<<c>> : c \in ConfigFiles}
  /\ modeName \in ModeNames
  /\ flags \in {<<>>} \cup {<<f>> : f \in FlagSets}
  /\ resolved = <<>>

\* c.Resolve(mode, cliFlags)
ResolveCall ==
  /\ resolved = <<>>
  /\ resolved' = <<Resolve(config, modeName, flags)>>
  /\ UNCHANGED <<stats, Width, MaxDepth, MinCellWidth, UseColor, levels,
                 droppedCount, out, calls, tree, renders, truncVars,
                 panicked, config, modeName, flags>>

NextResolve == ResolveCall

ResolveSpec == InitResolve /\ [][NextResolve]_vars

\* ------------------------------------------------------ notions for claims
\* every node of the subtree of node, node included
RECURSIVE NodesOf(_)
NodesOf(node) ==
  {node} \cup UNION {NodesOf(node.Children[k]) : k \in 1..Len(node.Children)}

\* every <<parent, child>> pair of the subtree of node
RECURSIVE EdgesOf(_)
EdgesOf(node) ==
  {<<node, node.Children[k]>> : k \in 1..Len(node.Children)}
  \cup UNION {EdgesOf(node.Children[k]) : k \in 1..Len(node.Children)}

\* the file nodes in the subtree of node as (path, additions, deletions)
FileLeaves(node) ==
  {[Path |-> n.Path, Add |-> n.Add, Del |-> n.Del] :
     n \in {m \in NodesOf(node) : ~m.IsDir}}

RECURSIVE SumRecords(_, _, _)
SumRecords(files, n, isAdd) ==
  IF n = 0 THEN 0
  ELSE SumRecords(files, n - 1, isAdd)
       + (IF isAdd THEN files[n].Additions ELSE files[n].Deletions)

RECURSIVE SumOver(_, _)
SumOver(S, isAdd) ==
  IF S = {} THEN 0
  ELSE LET x == CHOOSE y \in S : TRUE
       IN (IF isAdd THEN x.Add ELSE x.Del) + SumOver(S \ {x}, isAdd)

\* the tree before collapsing
RawTree == CalcTotals(BuildTreeFromFiles(stats.Files))

\* s is a prefix of t
IsPrefix(s, t) == Len(s) <= Len(t) /\ SubSeq(t, 1, Len(s)) = s

\* the path of a child named name below a node with path parentPath
ChildPath(parentPath, name) ==
  IF parentPath = <<>> THEN name ELSE parentPath \o <<"/">> \o name

\* number of nodes with changes among the nodes a call was given
ChangedCount(call) ==
  Cardinality({k \in 1..Len(call.nodes) : call.nodes[k].Total > 0})

\* the permutations of 1..n
Perms(n) ==
  {f \in [1..n -> 1..n] : \A i, j \in 1..n : f[i] = f[j] => i = j}

\* the amount the latest Render call added to droppedCount
RECURSIVE AddedBy(_, _)
AddedBy(cs, n) == IF n = 0 THEN 0 ELSE AddedBy(cs, n - 1) + cs[n].dropped

\* ------------------------------------------------------------------ claims
\* C1: whenever buildLevelCells is given availWidth >= MinCellWidth and at
\* least one node with changes, its cells tile the span: the first cell
\* starts at startPos, every cell is non-empty and starts where the one
\* before it ends, and the last cell ends at startPos + availWidth.  The span
\* of the first call is the usable width Width-2 from column 0, the span of
\* every later call is the span of a cell of the levels.
C1_CellsTileSpan ==
  \A j \in 1..Len(calls) :
    LET c == calls[j]
    IN /\ (j = 1 => c.startPos = 0 /\ c.availWidth = Width - 2)
       /\ (j > 1 =>
             \E d \in 1..Len(levels) : \E k \in 1..Len(levels[d]) :
               /\ levels[d][k].Start = c.startPos
               /\ levels[d][k].End = c.startPos + c.availWidth)
       /\ (c.availWidth >= MinCellWidth /\ ChangedCount(c) > 0 =>
             /\ Len(c.cells) > 0
             /\ c.cells[1].Start = c.startPos
             /\ \A k \in 1..Len(c.cells) : c.cells[k].Start < c.cells[k].End
             /\ \A k \in 1..(Len(c.cells) - 1) :
                  c.cells[k + 1].Start = c.cells[k].End
             /\ c.cells[Len(c.cells)].End = c.startPos + c.availWidth)

\* a call below the root that laid out two cells, the rounding residual
\* being non-zero
C1_TiledBelowRoot ==
  \E j \in 2..Len(calls) :
    /\ calls[j].availWidth >= MinCellWidth
    /\ Len(calls[j].cells) >= 2
    /\ \E k \in 1..Len(calls[j].nodes) :
         (calls[j].nodes[k].Total
            * (calls[j].availWidth - Len(calls[j].cells) * MinCellWidth))
           % calls[j].totalChanges # 0

\* C2: after buildTree (BuildTreeFromFiles, CalcTotals,
\* CollapseSingleChildPaths) the root's additions and deletions are the sums
\* over the input records, and the totals of every directory node are the
\* sums over the file leaves below it.
C2_TotalsEqualInput ==
  tree # <<>> =>
    /\ tree[1].Add = SumRecords(stats.Files, Len(stats.Files), TRUE)
    /\ tree[1].Del = SumRecords(stats.Files, Len(stats.Files), FALSE)
    /\ \A n \in NodesOf(tree[1]) :
         n.IsDir => /\ n.Add = SumOver(FileLeaves(n), TRUE)
                    /\ n.Del = SumOver(FileLeaves(n), FALSE)

\* C3: no state survives across Render calls: what a Render call writes is
\* what a fresh renderer with the same Width, MaxDepth and MinCellWidth
\* writes for the same records.
C3_RenderIsStateless ==
  renders >= 1 =>
    out = RenderCall(stats, Width, MaxDepth, MinCellWidth, UseColor, <<>>,
                     0).out

\* C4: for every buildLevelCells call, whatever its availWidth, the number of
\* cells returned plus the amount added to droppedCount is the number of
\* nodes with changes it was given.
C4_KeptPlusDropped ==
  \A j \in 1..Len(calls) :
    Len(calls[j].cells) + calls[j].dropped = ChangedCount(calls[j])

\* C5: when the nodes with changes of a call need more than availWidth
\* (count * MinCellWidth > availWidth), exactly floor(availWidth /
\* MinCellWidth) of them are kept, no dropped node has a larger total than a
\* kept one, and the other count - floor(availWidth / MinCellWidth) are
\* added to droppedCount.
C5_KeepsHighestRanked ==
  \A j \in 1..Len(calls) :
    LET c == calls[j]
        count == ChangedCount(c)
        fit == c.availWidth \div MinCellWidth
    IN count * MinCellWidth > c.availWidth =>
         /\ Len(c.cells) = fit
         /\ \A k \in 1..Len(c.cells) : \A m \in 1..Len(c.nodes) :
              (\A i \in 1..Len(c.cells) : c.cells[i].Path # c.nodes[m].Path)
                => c.cells[k].Total >= c.nodes[m].Total
         /\ c.dropped = count - fit

\* C6: CollapseSingleChildPaths is idempotent: applied to the tree that
\* buildTree has collapsed, it gives that tree again (names, paths, order
\* of children, totals).
C6_CollapseIdempotent ==
  tree # <<>> => CollapseSingleChildPaths(tree[1]) = tree[1]

\* a tree in which a chain of three directories was merged into one node
C6_ChainOfThreeMerged ==
  /\ tree # <<>>
  /\ \E n \in NodesOf(tree[1]) : n.Name = <<"a", "/", "b", "/", "c">>

\* C7: after CollapseSingleChildPaths no directory below the root has
\* exactly one child that is a directory; the name of every node is the
\* names of its chain joined with "/", so that the parent's path, "/" and
\* the name give the node's path; the node has the children of the directory
\* of the uncollapsed tree that has its path; and every file keeps its own
\* node, so a directory whose only child is a file is not merged with it.
C7_ChainsMerged ==
  tree # <<>> =>
    /\ \A e \in EdgesOf(tree[1]) :
         LET parent == e[1]
             n == e[2]
             last == FindNode(RawTree, n.Path)
         IN /\ ~(n.IsDir /\ Len(n.Children) = 1 /\ n.Children[1].IsDir)
            /\ n.Path = ChildPath(parent.Path, n.Name)
            /\ last # <<>>
            /\ last[1].IsDir = n.IsDir
            /\ Len(last[1].Children) = Len(n.Children)
            /\ \A k \in 1..Len(n.Children) :
                 /\ IsPrefix(last[1].Children[k].Name, n.Children[k].Name)
                 /\ IsPrefix(last[1].Children[k].Path, n.Children[k].Path)
    /\ \A f \in NodesOf(RawTree) :
         ~f.IsDir => \E n \in NodesOf(tree[1]) :
                       n.Path = f.Path /\ n.Name = f.Name /\ ~n.IsDir

\* a merged chain next to a directory that keeps its single file child
C7_MergedAndUnmerged ==
  /\ tree # <<>>
  /\ \E e \in EdgesOf(tree[1]) :
       /\ e[1].Name = <<"a", "/", "b">>
       /\ e[2].IsDir /\ e[2].Name = <<"c">>
       /\ Len(e[2].Children) = 1 /\ ~e[2].Children[1].IsDir

\* the directories of the uncollapsed tree that node n below parent absorbed
Absorbed(parent, n) ==
  {u \in NodesOf(RawTree) :
     /\ u.IsDir
     /\ u.Path # parent.Path
     /\ IsPrefix(Split(parent.Path), Split(u.Path)) \/ parent.Path = <<>>
     /\ IsPrefix(Split(u.Path), Split(n.Path))}

\* C8: collapsing leaves the totals alone: every node of the collapsed tree
\* has the additions and deletions that the node with its path has before
\* collapsing, the file nodes with their (path, additions, deletions) are the
\* same before and after, and a merged node has the totals of every
\* directory it absorbed.
C8_CollapseKeepsTotals ==
  tree # <<>> =>
    /\ \A e \in EdgesOf(tree[1]) :
         LET before == FindNode(RawTree, e[2].Path)
         IN /\ before # <<>>
            /\ before[1].Add = e[2].Add /\ before[1].Del = e[2].Del
            /\ e[2].IsDir =>
                 \A u \in Absorbed(e[1], e[2]) :
                   u.Add = e[2].Add /\ u.Del = e[2].Del
    /\ tree[1].Add = RawTree.Add /\ tree[1].Del = RawTree.Del
    /\ FileLeaves(tree[1]) = FileLeaves(RawTree)

\* a merged node with changes that absorbed two directories
C8_MergedWithChanges ==
  /\ tree # <<>>
  /\ \E e \in EdgesOf(tree[1]) :
       /\ e[2].IsDir /\ e[2].Add + e[2].Del > 0
       /\ Cardinality(Absorbed(e[1], e[2])) >= 2

\* stats with its records in the order f
Permuted(f) ==
  [stats EXCEPT !.Files = [k \in 1..Len(stats.Files) |-> stats.Files[f[k]]]]

C10_NoChangesOrGrid ==
  renders >= 1 =>
    LET below == RawTree.Children
        noSurvivor ==
          \/ stats.TotalFiles = 0
          \/ \A k \in 1..Len(below) : below[k].Add + below[k].Del = 0
          \/ Width - 2 < MinCellWidth
    IN /\ noSurvivor => out = <<NoChangesRow>>
       /\ ~noSurvivor =>
            /\ Len(out) >= 6
            /\ out[1].kind = "top"
            /\ out[2].kind = "content"
            /\ out[Len(out) - 1].kind = "bottom"
            /\ out[Len(out)].kind = "summary"
            /\ \A k \in 1..Len(out) : out[k].kind # "noChanges"

\* records with changes rendered as "No changes" for want of width
C10_NoChangesForWidth ==
  /\ renders >= 1
  /\ stats.TotalAdd > 0
  /\ Width - 2 >= 1
  /\ Width - 2 < MinCellWidth
  /\ out = <<NoChangesRow>>

\* C11: when N >= 1 levels are produced Render writes, in this order, the top
\* border, for each depth 0..N-1 the content row of that depth followed (but
\* for the last depth) by one separator, the leaf separator, the stats row,
\* the bottom border and the summary: N content rows, N-1 separators, 2N+3
\* grid rows before the summary.
C11_RowOrder ==
  (renders >= 1 /\ out # <<NoChangesRow>>) =>
    LET N == Len(levels)
    IN /\ N >= 1
       /\ Len(out) = 2 * N + 4
       /\ out[1].kind = "top"
       /\ \A d \in 0..(N - 1) :
            out[2 + 2 * d].kind = "content" /\ out[2 + 2 * d].depth = d
       /\ \A d \in 0..(N - 2) :
            out[3 + 2 * d].kind = "separator" /\ out[3 + 2 * d].depth = d
       /\ out[2 * N + 1].kind = "leafSeparator"
       /\ out[2 * N + 2].kind = "stats"
       /\ out[2 * N + 3].kind = "bottom"
       /\ out[2 * N + 4].kind = "summary"
       /\ Cardinality({k \in 1..Len(out) : out[k].kind = "content"}) = N
       /\ Cardinality({k \in 1..Len(out) : out[k].kind = "separator"}) = N - 1

\* a grid of three or more levels
C11_ThreeLevelsRendered ==
  /\ renders >= 1
  /\ Len(levels) >= 3
  /\ Len(out) = 2 * Len(levels) + 4

\* the nodes with changes that the first n calls of the latest Render call
\* were given and did not turn into cells
RECURSIVE DroppedInRender(_, _)
DroppedInRender(cs, n) ==
  IF n = 0 THEN 0
  ELSE DroppedInRender(cs, n - 1) + (ChangedCount(cs[n]) - Len(cs[n].cells))

\* C12: the summary has the hidden-count note exactly when a node was
\* dropped during this Render call, the number of the note is the sum over
\* the branches laid out in this call of the nodes dropped there, and the
\* additions, deletions and file count of the summary are the input totals.
C12_HiddenNoteOfThisRender ==
  (renders >= 1 /\ out # <<NoChangesRow>>) =>
    LET summary == out[Len(out)]
        dropped == DroppedInRender(calls, Len(calls))
    IN /\ summary.kind = "summary"
       /\ summary.note <=> dropped > 0
       /\ summary.note => summary.hidden = dropped
       /\ summary.add = stats.TotalAdd
       /\ summary.del = stats.TotalDel
       /\ summary.files = stats.TotalFiles

\* the children with changes of the directory that cell stands for
ChangedChildren(found) ==
  IF found = <<>> THEN {}
  ELSE IF ~found[1].IsDir THEN {}
  ELSE {k \in 1..Len(found[1].Children) :
          found[1].Children[k].Add + found[1].Children[k].Del > 0}

\* the cells of level d (1-based; none beyond the last level) that start
\* inside the span of cell
CellsWithin(lvls, d, cell) ==
  IF d > Len(lvls) THEN {}
  ELSE {k \in 1..Len(lvls[d]) :
          lvls[d][k].Start >= cell.Start /\ lvls[d][k].Start < cell.End}

\* the smaller of two numbers
Min(a, b) == IF a < b THEN a ELSE b

RECURSIVE TotalOf(_, _)
TotalOf(s, n) == IF n = 0 THEN 0 ELSE TotalOf(s, n - 1) + s[n].Total

\* C14: the leftover width is shared out against the total of the branch
\* before any drop: with k kept nodes, L = availWidth - k * MinCellWidth and T
\* the total of the branch (the input total at the root, below the root the
\* total of the parent cell, which is the sum over all nodes of the branch),
\* the width of every kept node before the residual adjustment is
\* MinCellWidth + floor(nodeTotal * L / T); every cell is at least
\* MinCellWidth wide and these widths sum to availWidth at most.
C14_LeftoverByScopeTotal ==
  \A j \in 1..Len(calls) :
    LET c == calls[j]
        k == Len(c.cells)
        L == c.availWidth - k * MinCellWidth
        T == c.totalChanges
    IN k > 0 =>
         /\ j = 1 => T = stats.TotalAdd + stats.TotalDel
         /\ j > 1 =>
              /\ T = TotalOf(c.nodes, Len(c.nodes))
              /\ \E d \in 1..Len(levels) : \E i \in 1..Len(levels[d]) :
                   /\ levels[d][i].Start = c.startPos
                   /\ levels[d][i].End = c.startPos + c.availWidth
                   /\ levels[d][i].Total = T
         /\ Len(c.widths) = k
         /\ \A i \in 1..k :
              /\ c.widths[i] = MinCellWidth + (c.cells[i].Total * L) \div T
              /\ c.cells[i].End - c.cells[i].Start >= MinCellWidth
         /\ SumSeq(c.widths, k) <= c.availWidth

\* a branch that dropped a node and had width left over, so that the share
\* of a kept node of the total before the drop is not its share of the total
\* of the kept nodes
C14_LeftoverAfterDrop ==
  \E j \in 1..Len(calls) :
    LET c == calls[j]
        k == Len(c.cells)
        L == c.availWidth - k * MinCellWidth
    IN /\ k > 0 /\ c.dropped > 0 /\ L > 0
       /\ (c.cells[1].Total * L) \div c.totalChanges
            # (c.cells[1].Total * L) \div TotalOf(c.cells, k)

\* C15: the rounding residual, availWidth minus the sum of the proportional
\* widths, goes to one kept cell, the first, which is a widest one of the
\* sibling set; every other cell keeps its proportional width, and after the
\* adjustment the widths do not increase from the first cell to the last.
C15_ResidualToWidest ==
  \A j \in 1..Len(calls) :
    LET c == calls[j]
        k == Len(c.cells)
        residual == c.availWidth - SumSeq(c.widths, k)
        width(i) == c.cells[i].End - c.cells[i].Start
    IN k > 0 =>
         /\ residual >= 0
         /\ width(1) = c.widths[1] + residual
         /\ \A i \in 2..k : width(i) = c.widths[i]
         /\ \A i \in 1..k : c.widths[1] >= c.widths[i]
         /\ \A i \in 1..(k - 1) : width(i) >= width(i + 1)

\* a sibling set of cells of different proportional widths with a residual
C15_ResidualAmongUnequal ==
  \E j \in 1..Len(calls) :
    /\ Len(calls[j].cells) >= 2
    /\ calls[j].widths[1] > calls[j].widths[2]
    /\ calls[j].availWidth > SumSeq(calls[j].widths, Len(calls[j].widths))

\* the place of the node with the given path among the nodes of a call
NodeIndex(call, path) ==
  CHOOSE k \in 1..Len(call.nodes) : call.nodes[k].Path = path

\* C16: in one sibling set the nodes without changes never become cells, the
\* cells are from left to right in non-increasing order of total, and cells
\* of equal total are in the order their nodes have in the tree, which is
\* the same on every run.
C16_SortedByTotal ==
  \A j \in 1..Len(calls) :
    LET c == calls[j]
    IN /\ \A i \in 1..Len(c.cells) :
            /\ c.cells[i].Total > 0
            /\ \E k \in 1..Len(c.nodes) :
                 /\ c.nodes[k].Path = c.cells[i].Path
                 /\ c.nodes[k].Total = c.cells[i].Total
       /\ \A i \in 1..(Len(c.cells) - 1) :
            /\ c.cells[i].Total >= c.cells[i + 1].Total
            /\ c.cells[i].Total = c.cells[i + 1].Total =>
                 NodeIndex(c, c.cells[i].Path)
                   < NodeIndex(c, c.cells[i + 1].Path)

\* a sibling set with a node without changes that is no cell, and a sibling
\* set with two cells of equal total
C16_ZeroNodeAndTie ==
  /\ \E j \in 1..Len(calls) :
       /\ Len(calls[j].cells) >= 1
       /\ \E k \in 1..Len(calls[j].nodes) : calls[j].nodes[k].Total = 0
  /\ \E j \in 1..Len(calls) :
       /\ Len(calls[j].cells) >= 2
       /\ calls[j].cells[1].Total = calls[j].cells[2].Total

\* the cells of level d (1-based) whose span holds the span of cell
Holding(lvls, d, cell) ==
  {k \in 1..Len(lvls[d]) :
     lvls[d][k].Start <= cell.Start /\ cell.End <= lvls[d][k].End}

\* C17: the span of every cell below the first level lies within the span
\* of exactly one cell of the level above, which is the cell of the parent
\* of its node in the tree; the cells of a level do not overlap and are in
\* order of strictly increasing Start.
C17_NestedInParent ==
  (renders >= 1 /\ tree # <<>>) =>
    /\ \A d \in 2..Len(levels) : \A i \in 1..Len(levels[d]) :
         LET cell == levels[d][i]
             holding == Holding(levels, d - 1, cell)
         IN /\ Cardinality(holding) = 1
            /\ \A k \in holding :
                 \E e \in EdgesOf(tree[1]) :
                   /\ e[2].Path = cell.Path
                   /\ e[1].Path = levels[d - 1][k].Path
                   /\ FindNode(tree[1], levels[d - 1][k].Path) = <<e[1]>>
    /\ \A d \in 1..Len(levels) : \A i \in 1..(Len(levels[d]) - 1) :
         /\ levels[d][i].Start < levels[d][i + 1].Start
         /\ levels[d][i].End <= levels[d][i + 1].Start

\* a level whose cells lie below two different cells of the level above
C17_TwoParents ==
  /\ renders >= 1 /\ tree # <<>>
  /\ \E d \in 2..Len(levels) : \E i, k \in 1..Len(levels[d]) :
       Holding(levels, d - 1, levels[d][i])
         # Holding(levels, d - 1, levels[d][k])

\* the End columns below the usable width Width-2 of the cells of level d
\* (1-based)
EndColumns(d) ==
  {levels[d][k].End : k \in {i \in 1..Len(levels[d]) :
                               levels[d][i].End < Width - 2}}

\* the character of a row at position pos, the left border being position 0
\* (rows without colour codes)
CharAt(row, pos) == row.text[pos + 1]

\* the separator rows of the latest Render call
SeparatorRows == {k \in 1..Len(out) : out[k].kind = "separator"}

\* C18: the boundaries of a level are the End columns of its cells that are
\* smaller than the usable width Width-2: the top border has its separator
\* at the boundaries of the first level and nowhere else, and the separator
\* row between two levels shows at each position the cross where both
\* levels have a boundary, the T that ends the line from above (BottomSep)
\* where only the level above has one, the T that starts the line below
\* (TopSep) where only the level below has one, and the plain rule elsewhere.
C18_SeparatorJunctions ==
  (renders >= 1 /\ out # <<NoChangesRow>>) =>
    /\ Len(out[1].text) = Width
    /\ \A pos \in 1..(Width - 2) :
         CharAt(out[1], pos) =
           IF pos \in EndColumns(1) THEN StyleOf(UseColor).TopSep
           ELSE StyleOf(UseColor).Horizontal
    /\ \A k \in SeparatorRows :
         /\ Len(out[k].text) = Width
         /\ CharAt(out[k], 0) = StyleOf(UseColor).LeftSep
         /\ CharAt(out[k], Width - 1) = StyleOf(UseColor).RightSep
         /\ \A pos \in 1..(Width - 2) :
              LET above == pos \in EndColumns(out[k].depth + 1)
                  below == pos \in EndColumns(out[k].depth + 2)
              IN CharAt(out[k], pos) =
                   IF above /\ below THEN StyleOf(UseColor).Cross
                   ELSE IF above THEN StyleOf(UseColor).BottomSep
                   ELSE IF below THEN StyleOf(UseColor).TopSep
                   ELSE StyleOf(UseColor).Horizontal

\* box characters that differ, and separator rows that show a cross, both
\* kinds of T and the plain rule
C18_AllJunctions ==
  /\ renders >= 1 /\ UseColor
  /\ \A g \in {"Cross", "BottomSep", "TopSep", "Horizontal"} :
       \E k \in SeparatorRows : \E pos \in 1..(Width - 2) :
         CharAt(out[k], pos) = StyleOf(UseColor)[g]

\* the cells, as <<level, index>>, for which no cell of the next level
\* starts inside their span
LeafPlaces ==
  {p \in UNION {{<<d, k>> : k \in 1..Len(levels[d])} : d \in 1..Len(levels)} :
     CellsWithin(levels, p[1] + 1, levels[p[1]][p[2]]) = {}}

\* the End columns of the leaf cells below the usable width
LeafEnds ==
  {e \in {levels[p[1]][p[2]].End : p \in LeafPlaces} : e < Width - 2}

\* a string that is no colour code
IsVisible(t) == t \notin {ColorDir, ColorAdd, ColorDel, ColorReset}

\* the visible characters of a row
Visible(row) == [text |-> SelectSeq(row.text, IsVisible)]

\* the stats of a cell as the stats row shows them: "+adds", " -dels" when
\* there are deletions, cut to the cell's width less one
ShownStats(cell) ==
  IF Len(StatsPlain(cell)) > cell.End - cell.Start - 1
  THEN SubSeq(StatsPlain(cell), 1, cell.End - cell.Start - 1)
  ELSE StatsPlain(cell)

\* the positions of the stats row taken by the stats of cell, centred in
\* the cell's span less its last column
StatsColumns(cell) ==
  LET lead == (cell.End - cell.Start - 1 - Len(ShownStats(cell))) \div 2
  IN (cell.Start + lead + 1)..(cell.Start + lead + Len(ShownStats(cell)))

\* C19: the leaf row is made of the cells, over all levels, for which no
\* cell of the next level starts inside their span, in order of Start: the
\* stats row shows the stats of each of them inside its span and nothing
\* else, and the leaf separator, the stats row and the bottom border have
\* their separators at the End columns of these cells below the usable
\* width, not at the boundaries of the first level.
C19_LeafRow ==
  (renders >= 1 /\ out # <<NoChangesRow>>) =>
    LET N == Len(levels)
        leafSep == out[2 * N + 1]
        statsRow == Visible(out[2 * N + 2])
        bottom == out[2 * N + 3]
        style == StyleOf(UseColor)
    IN /\ Len(leafSep.text) = Width /\ Len(statsRow.text) = Width
       /\ Len(bottom.text) = Width
       /\ \A pos \in 1..(Width - 2) :
            /\ CharAt(bottom, pos) =
                 IF pos \in LeafEnds THEN style.BottomSep
                 ELSE style.Horizontal
            /\ CharAt(leafSep, pos) =
                 IF pos \in EndColumns(N) /\ pos \in LeafEnds THEN style.Cross
                 ELSE IF pos \in EndColumns(N) THEN style.BottomSep
                 ELSE IF pos \in LeafEnds THEN style.TopSep
                 ELSE style.Horizontal
            /\ CharAt(statsRow, pos) = style.Vertical <=> pos \in LeafEnds
            /\ (pos \notin LeafEnds
                 /\ \A p \in LeafPlaces :
                      pos \notin StatsColumns(levels[p[1]][p[2]]))
                 => CharAt(statsRow, pos) = " "
       /\ \A p \in LeafPlaces :
            LET cell == levels[p[1]][p[2]]
                lead == (cell.End - cell.Start - 1 - Len(ShownStats(cell)))
                          \div 2
            IN \A i \in 1..Len(ShownStats(cell)) :
                 CharAt(statsRow, cell.Start + lead + i) = ShownStats(cell)[i]

\* leaf cells on two levels, with leaf boundaries that are not the
\* boundaries of the first level
C19_LeavesOnTwoLevels ==
  /\ renders >= 1 /\ out # <<NoChangesRow>>
  /\ \E p, q \in LeafPlaces : p[1] # q[1]
  /\ LeafEnds # EndColumns(1)
  /\ EndColumns(1) # {}

\* the label of cell is shown centred in its span less the last reserve
\* columns: truncated to that width, with the smaller half of the padding
\* before it, and spaces in the rest of these columns
LabelCentred(row, cell, reserve) ==
  LET room == cell.End - cell.Start - reserve
      label == truncate(cell.Label, room)
      lead == (room - Len(label)) \div 2
  IN /\ Len(label) <= room
     /\ \A i \in 1..room :
          CharAt(row, cell.Start + i) =
            IF i > lead /\ i <= lead + Len(label) THEN label[i - lead]
            ELSE " "

\* C20: in every content row each cell but the last of the row keeps its
\* last column for the separator between cells and shows its label, truncated
\* if need be, centred in the other Width()-1 columns; the last cell of the
\* row keeps no column back: its label is truncated to the full width of the
\* cell and centred in it.
C20_LastCellUsesFullWidth ==
  (renders >= 1 /\ out # <<NoChangesRow>>) =>
    \A d \in 1..Len(levels) :
      LET row == Visible(out[2 * d])
      IN \A i \in 1..Len(levels[d]) :
           IF i < Len(levels[d])
           THEN /\ LabelCentred(row, levels[d][i], 1)
                /\ CharAt(row, levels[d][i].End) = StyleOf(UseColor).Vertical
           ELSE LabelCentred(row, levels[d][i], 0)

\* r.truncate was called on its own
Truncated == truncated # <<>>

\* the substring of s from its last ".", <<>> when s has none
ExtensionOf(s) ==
  IF LastIndex(s, ".") < 0 THEN <<>>
  ELSE SubSeq(s, LastIndex(s, ".") + 1, Len(s))

\* s has an extension and it fits in width columns together with two
\* characters of the name and the ellipsis
ExtensionFits(s, width) ==
  /\ LastIndex(s, ".") >= 0
  /\ width >= 2 + 1 + Len(ExtensionOf(s))

IsDirLabel(s) == Len(s) > 0 /\ s[Len(s)] = "/"

\* C21: truncate returns the label unchanged whenever the width is at least
\* the number of characters of the label, the empty label with width 0
\* included.
C21_RoundTrip ==
  (Truncated /\ truncMaxLen >= Len(truncLabel)) => truncated[1] = truncLabel

\* a directory label with an extension dot truncated to exactly its length
C21_WidthIsLength ==
  /\ Truncated
  /\ Len(truncLabel) >= 4
  /\ truncMaxLen = Len(truncLabel)
  /\ IsDirLabel(truncLabel)
  /\ LastIndex(truncLabel, ".") > 0
  /\ truncated[1] = truncLabel

\* C22: when the label is longer than the width and its extension (the
\* substring from the last ".") fits with two name characters and the
\* ellipsis, the result is the first width-1-len(extension) characters,
\* the ellipsis and the whole extension: exactly width characters.
C22_ExtensionKept ==
  (/\ Truncated
   /\ Len(truncLabel) > truncMaxLen
   /\ ExtensionFits(truncLabel, truncMaxLen)) =>
    LET ext == ExtensionOf(truncLabel)
    IN /\ truncated[1] = SubSeq(truncLabel, 1, truncMaxLen - 1 - Len(ext))
                           \o <<Ellipsis>> \o ext
       /\ Len(truncated[1]) = truncMaxLen

\* a file label of six characters or more with a two-character extension,
\* truncated to five columns
C22_FileExtensionKept ==
  /\ Truncated
  /\ Len(truncLabel) > truncMaxLen
  /\ truncMaxLen = 5
  /\ ~IsDirLabel(truncLabel)
  /\ Len(ExtensionOf(truncLabel)) = 2
  /\ ExtensionOf(truncLabel)[2] # "/"
  /\ truncated[1] = SubSeq(truncLabel, 1, 2) \o <<Ellipsis>>
                      \o ExtensionOf(truncLabel)

\* C23: when the label is longer than the width and the extension cannot
\* be kept (there is none, or it does not fit), the result is the first
\* width-1 characters of the label and the ellipsis, for every width of 1
\* or more.
C23_PlainTruncation ==
  (/\ Truncated
   /\ truncMaxLen >= 1
   /\ Len(truncLabel) > truncMaxLen
   /\ ~IsDirLabel(truncLabel)
   /\ ~ExtensionFits(truncLabel, truncMaxLen)) =>
    truncated[1] = SubSeq(truncLabel, 1, truncMaxLen - 1) \o <<Ellipsis>>

\* C23 as the code has it: a file label longer than the width whose
\* extension cannot be kept is cut to its first width-1 characters and the
\* ellipsis when the width is 3 or more, and to its first width characters
\* with no ellipsis when the width is 1 or 2.
C23_PlainTruncationFromThree ==
  (/\ Truncated
   /\ truncMaxLen >= 1
   /\ Len(truncLabel) > truncMaxLen
   /\ ~IsDirLabel(truncLabel)
   /\ ~ExtensionFits(truncLabel, truncMaxLen)) =>
    truncated[1] =
      IF truncMaxLen >= 3
      THEN SubSeq(truncLabel, 1, truncMaxLen - 1) \o <<Ellipsis>>
      ELSE SubSeq(truncLabel, 1, truncMaxLen)

\* a file label with an extension that does not fit in three columns
C23_CutAtThree ==
  /\ Truncated
  /\ truncMaxLen = 3
  /\ Len(truncLabel) > 3
  /\ ~IsDirLabel(truncLabel)
  /\ LastIndex(truncLabel, ".") > 0
  /\ truncated[1] = SubSeq(truncLabel, 1, 2) \o <<Ellipsis>>

\* a name longer than its budget of columns cut to the budget: whole
\* characters only up to two columns, else the extension kept if it fits,
\* else the first budget-1 characters and the ellipsis
CutName(name, budget) ==
  IF budget <= 2 THEN SubSeq(name, 1, budget)
  ELSE IF ExtensionFits(name, budget)
  THEN SubSeq(name, 1, budget - 1 - Len(ExtensionOf(name)))
       \o <<Ellipsis>> \o ExtensionOf(name)
  ELSE SubSeq(name, 1, budget - 1) \o <<Ellipsis>>

\* C24: for a directory label (ending in "/") and a width of 1 or more the
\* result ends in "/" and has at most width characters; when the label is
\* longer than the width, the "/" is taken off, the name is cut to width-1
\* columns and the "/" is put back after it.
C24_SeparatorKept ==
  (Truncated /\ truncMaxLen >= 1 /\ IsDirLabel(truncLabel)) =>
    LET res == truncated[1]
        name == SubSeq(truncLabel, 1, Len(truncLabel) - 1)
    IN /\ IsDirLabel(res)
       /\ Len(res) <= truncMaxLen
       /\ Len(truncLabel) > truncMaxLen =>
            res = CutName(name, truncMaxLen - 1) \o <<"/">>

\* a directory label cut to four columns: two characters of the name, the
\* ellipsis and the separator
C24_DirectoryCut ==
  /\ Truncated
  /\ IsDirLabel(truncLabel)
  /\ Len(truncLabel) > truncMaxLen
  /\ truncMaxLen = 4
  /\ truncated[1] = SubSeq(truncLabel, 1, 2) \o <<Ellipsis, "/">>

\* the ASCII character that stands for a box-drawing character when colour
\* is off; any other character stands for itself
AsciiOf(t) ==
  IF \E f \in DOMAIN DefaultBoxStyle : DefaultBoxStyle[f] = t
  THEN ASCIIBoxStyle[CHOOSE f \in DOMAIN DefaultBoxStyle : DefaultBoxStyle[f] = t]
  ELSE t

\* the visible characters of the rows, column by column
VisibleRows(rows) == [k \in 1..Len(rows) |-> Visible(rows[k]).text]

\* the visible characters of the rows with every box-drawing character
\* replaced by its ASCII counterpart
AsciiRows(rows) ==
  [k \in 1..Len(rows) |->
     [i \in 1..Len(Visible(rows[k]).text) |-> AsciiOf(Visible(rows[k]).text[i])]]

\* the rows the same Render call writes with the colour setting inverted
OtherColorRows ==
  RenderCall(stats, Width, MaxDepth, MinCellWidth, ~UseColor, levels,
             droppedCount).out

\* C25: colour is orthogonal to layout: for the same records, Width,
\* MaxDepth and MinCellWidth a Render call with colour on and one with
\* colour off write the same number of rows, and once the colour codes are
\* removed each row has the same width and the same characters at the same
\* columns (labels, stats, separators, junctions).
C25_ColorOrthogonal ==
  [][renders' = renders + 1 =>
       VisibleRows(out') = VisibleRows(OtherColorRows)]_vars

\* C25 as the code has it: the two Render calls write the same number of
\* rows, each with the same visible width and the same label, stats and
\* summary characters at the same columns; where the coloured output has a
\* box-drawing character the uncoloured output has its ASCII counterpart
\* ("+" for corners and junctions, "-" and "|" for the rules), and the
\* uncoloured output holds no colour code.
C25_SameLayoutAsciiBoxes ==
  [][renders' = renders + 1 =>
       LET other == OtherColorRows
           plain == IF UseColor THEN other ELSE out'
       IN /\ Len(out') = Len(other)
          /\ \A k \in 1..Len(other) :
               Len(Visible(out'[k]).text) = Len(Visible(other[k]).text)
          /\ AsciiRows(out') = AsciiRows(other)
          /\ \A k \in 1..Len(plain) : Visible(plain[k]).text = plain[k].text]_vars

\* a coloured grid of two levels with two leaves whose stats row holds a
\* coloured addition count between box-drawing rules
C25_ColouredGrid ==
  /\ renders >= 1
  /\ UseColor
  /\ Len(levels) >= 2
  /\ Len(collectLeafCells(levels)) >= 2
  /\ \E k \in 1..Len(out) :
       /\ out[k].kind = "stats"
       /\ ColorAdd \in {out[k].text[i] : i \in 1..Len(out[k].text)}
       /\ DefaultBoxStyle.Vertical \in {out[k].text[i] : i \in 1..Len(out[k].text)}

\* C26: Render never stops with a runtime error (a division by zero, a
\* slice or an index out of range) on records with non-negative counts and
\* valid paths, whatever the integer Width, with MaxDepth >= 0 and
\* MinCellWidth > 0; no records, no record with changes and a Width too
\* small for one cell end as the "No changes" line, the last with the nodes
\* counted as dropped when there is a column at all.
C26_NoRuntimeError ==
  renders >= 1 =>
    /\ ~panicked
    /\ out = <<NoChangesRow>> \/ out[Len(out)].kind = "summary"
    /\ stats.TotalFiles = 0 => out = <<NoChangesRow>>
    /\ stats.TotalAdd + stats.TotalDel = 0 => out = <<NoChangesRow>>
    /\ Width - 2 < MinCellWidth => out = <<NoChangesRow>>
    /\ (/\ calls # <<>>
        /\ ChangedIn(calls[1].nodes) > 0
        /\ Width - 2 >= 1
        /\ Width - 2 < MinCellWidth) =>
         /\ calls[1].dropped = ChangedIn(calls[1].nodes)
         /\ droppedCount >= calls[1].dropped

\* records with changes rendered with a negative usable width
C26_NegativeUsableWidth ==
  /\ renders >= 1
  /\ Width < 2
  /\ stats.TotalAdd + stats.TotalDel > 0
  /\ stats.TotalFiles >= 2
  /\ ~panicked
  /\ out = <<NoChangesRow>>

\* the sources of one Resolve call from the highest precedence to the
\* lowest: the command-line flags, modes[mode] and defaults of the
\* configuration file, the built-in defaults of the mode; a source that is
\* absent (nil flags, nil configuration, no entry for the mode) is left out
SourcesOf(c, mode, cliFlags) ==
  (IF cliFlags # <<>> THEN <<cliFlags[1]>> ELSE <<>>)
  \o (IF c # <<>> /\ mode \in DOMAIN c[1].Modes
      THEN <<c[1].Modes[mode]>> ELSE <<>>)
  \o (IF c # <<>> THEN <<c[1].Defaults>> ELSE <<>>)
  \o (IF mode \in DOMAIN ModeDefaults THEN <<ModeDefaults[mode]>> ELSE <<>>)

\* the value of field f in the first of the sources that sets it, the
\* hardcoded global default when none does
FirstSetting(sources, f) ==
  IF \E k \in 1..Len(sources) : sources[k][f] # <<>>
  THEN sources[CHOOSE k \in 1..Len(sources) :
                 /\ sources[k][f] # <<>>
                 /\ \A j \in 1..(k - 1) : sources[j][f] = <<>>][f][1]
  ELSE DefaultConfig[f]

\* C27: Resolve gives each field (Width, Depth, Expand, N) the value of the
\* highest-precedence source that sets it, in the order hardcoded global
\* defaults < built-in mode defaults < configuration-file defaults <
\* configuration-file modes[mode] < command-line flags; a nil configuration
\* and nil flags are sources that set nothing.
C27_Precedence ==
  resolved # <<>> =>
    \A f \in ConfigFields :
      resolved[1][f] = FirstSetting(SourcesOf(config, modeName, flags), f)

\* all five sources in one call: the flags win for Width, modes[icicle] of
\* the file wins for Depth with a zero over the file's defaults and the
\* built-in 4, and N and Expand keep the global defaults
C27_AllSources ==
  /\ resolved # <<>>
  /\ modeName = "icicle"
  /\ flags # <<>> /\ flags[1].Width = <<3>> /\ flags[1].Depth = <<>>
  /\ config # <<>>
  /\ config[1].Defaults.Width = <<80>> /\ config[1].Defaults.Depth = <<80>>
  /\ "icicle" \in DOMAIN config[1].Modes
  /\ config[1].Modes["icicle"].Depth = <<0>>
  /\ resolved[1] = [Width |-> 3, Depth |-> 0, Expand |-> DefaultExpand,
                     N |-> DefaultN]

\* the rows of the grid: every row written but the summary
GridRowsOf(rows) == SubSeq(rows, 1, Len(rows) - 1)

\* C28: whenever level 0 has a cell, every row of the grid (top border,
\* content rows, separators between levels, leaf separator, stats row,
\* bottom border) has exactly Width visible characters, at every depth and
\* also when a level has gaps under leaves or under parents whose children
\* were dropped.
C28_RowsHaveWidth ==
  (renders >= 1 /\ Len(levels) > 0 /\ Len(levels[1]) > 0) =>
    /\ out # <<NoChangesRow>>
    /\ \A k \in 1..Len(GridRowsOf(out)) :
         /\ out[k].kind \in {"top", "content", "separator", "leafSeparator",
                              "stats", "bottom"}
         /\ Len(Visible(out[k]).text) = Width

\* a grid of two levels or more whose last level leaves columns empty, with
\* a label and stats that had to be cut
C28_GapsAndCuts ==
  /\ renders >= 1
  /\ Len(levels) >= 2
  /\ levels[Len(levels)][1].Start > 0
     \/ levels[Len(levels)][Len(levels[Len(levels)])].End < Width - 2
  /\ \E d \in 1..Len(levels) : \E i \in 1..Len(levels[d]) :
       Len(levels[d][i].Label) > levels[d][i].End - levels[d][i].Start - 1
  /\ \E k \in 1..Len(out) :
       out[k].kind = "stats" /\ Len(Visible(out[k]).text) = Width

\* the sum of the additions (isAdd) or of the deletions of the first n cells
RECURSIVE SumCells(_, _, _)
SumCells(cells, n, isAdd) ==
  IF n = 0 THEN 0
  ELSE SumCells(cells, n - 1, isAdd)
       + (IF isAdd THEN cells[n].Add ELSE cells[n].Del)

\* the cells follow one another from column first to column last, none
\* empty
TilesColumns(cells, first, last) ==
  /\ Len(cells) > 0
  /\ cells[1].Start = first
  /\ cells[Len(cells)].End = last
  /\ \A i \in 1..Len(cells) : cells[i].Start < cells[i].End
  /\ \A i \in 1..(Len(cells) - 1) : cells[i].End = cells[i + 1].Start

\* C29: the leaf cells collectLeafCells returns tile the usable width: in
\* their order (by Start) they are contiguous and do not overlap, the first
\* starts at column 0 and the last ends at Width-2, whatever the number of
\* levels, the drops and the MaxDepth cut-off; and when no node was dropped
\* in the Render call, the additions and the deletions of the leaves, which
\* the stats row shows, sum to the additions and deletions of the tree.
C29_LeavesTileWidth ==
  (renders >= 1 /\ Len(levels) > 0 /\ Len(levels[1]) > 0) =>
    LET leaves == collectLeafCells(levels)
    IN /\ TilesColumns(leaves, 0, Width - 2)
       /\ DroppedInRender(calls, Len(calls)) = 0 =>
            /\ SumCells(leaves, Len(leaves), TRUE) = tree[1].Add
            /\ SumCells(leaves, Len(leaves), FALSE) = tree[1].Del

\* three leaves, not all on one level, in a render that dropped nothing
\* and shows additions and deletions
C29_LeavesAcrossLevels ==
  /\ renders >= 1
  /\ Len(levels) >= 2
  /\ DroppedInRender(calls, Len(calls)) = 0
  /\ Len(collectLeafCells(levels)) >= 3
  /\ \E d \in 1..(Len(levels) - 1) : \E i \in 1..Len(levels[d]) :
       IsLeaf(levels, d - 1, levels[d][i])
  /\ tree[1].Add > 0 /\ tree[1].Del > 0
  /\ SumCells(collectLeafCells(levels), Len(collectLeafCells(levels)), FALSE)
       = tree[1].Del

\* a render that dropped nodes below level 0 and still tiles the width
C29_LeavesAfterDrops ==
  /\ renders >= 1
  /\ Len(levels) >= 2
  /\ \E k \in 2..Len(calls) : ChangedCount(calls[k]) > Len(calls[k].cells)
  /\ TilesColumns(collectLeafCells(levels), 0, Width - 2)

\* the largest of a non-empty set of numbers
MaxOf(S) == CHOOSE x \in S : \A y \in S : y <= x

\* the number of levels of nodes below node
RECURSIVE Height(_)
Height(node) ==
  IF Len(node.Children) = 0 THEN 0
  ELSE 1 + MaxOf({Height(node.Children[k]) : k \in 1..Len(node.Children)})

\* the nodes d levels below node
RECURSIVE NodesAtDepth(_, _)
NodesAtDepth(node, d) ==
  IF d = 0 THEN {node}
  ELSE UNION {NodesAtDepth(node.Children[k], d - 1) :
                k \in 1..Len(node.Children)}

\* the paths of the records have no empty segment
NonEmptySegments ==
  \A k \in 1..Len(stats.Files) :
    \A i \in 1..Len(Split(stats.Files[k].Path)) :
      Split(stats.Files[k].Path)[i] # <<>>

\* C30: with MaxDepth = 0 (unlimited) and record paths without empty
\* segments buildLevels ends with no more levels than the collapsed tree is
\* high: FindNode resolves the path of every cell to the node the cell was
\* made from, d levels below the root for a cell of level d-1, never to
\* an ancestor of it nor to the root.
C30_LevelsWithinHeight ==
  (renders >= 1 /\ MaxDepth = 0 /\ tree # <<>> /\ NonEmptySegments) =>
    /\ Len(levels) <= Height(tree[1])
    /\ \A d \in 1..Len(levels) : \A i \in 1..Len(levels[d]) :
         LET cell == levels[d][i]
             found == FindNode(tree[1], cell.Path)
         IN /\ found # <<>>
            /\ found[1] \in NodesAtDepth(tree[1], d)
            /\ found[1] # tree[1]
            /\ MakeCell(found[1], cell.Start, cell.End - cell.Start) = cell

\* as many levels as the tree is high, four, the deepest cell resolved to
\* its node
C30_FourLevels ==
  /\ renders >= 1
  /\ MaxDepth = 0
  /\ tree # <<>>
  /\ Height(tree[1]) = 4
  /\ Len(levels) = 4
  /\ FindNode(tree[1], levels[4][1].Path) # <<>>
  /\ FindNode(tree[1], levels[4][1].Path)[1] \in NodesAtDepth(tree[1], 4)

====
